---- MODULE Spec2Model ----
(***************************************************************************)
(* Model of the OCR consolidation pipeline of src/main.go (the service     *)
(* revision that starts at line 497): ExtractTexts and its helpers, the    *)
(* semantic reconciler filterTextItemsAdvanced, and imageExtractHandler.   *)
(*                                                                         *)
(* A Go string is modelled as the sequence of its Unicode code points      *)
(* (every string the program handles here is valid UTF-8); Bytes(s) is its *)
(* UTF-8 encoding, so len(s) of the source is Len(Bytes(s)) and s[i] of    *)
(* the source is Bytes(s)[i+1].                                            *)
(***************************************************************************)
EXTENDS Integers, Sequences, FiniteSets, TLC

(***************************************************************************)
(* Bounds of the model.                                                    *)
(***************************************************************************)
MaxList == 3

MaxTextLen == 6

MaxOriginals == 2

MaxContours == 2

\* The most characters of a short text given to filterValidTexts.
MaxShortLen == 3

\* The most lines of a raw engine output given to cleanTesseractOutput.
MaxRawLines == 3

\* The number of image requests served at the same time.
MaxRequests == 3

\* The nanoseconds that pass while the concurrent requests run.
MaxClock == 1

(***************************************************************************)
(* Runes and strings.                                                      *)
(***************************************************************************)
\* unicode.IsLetter on the code points the model uses: ASCII letters,
\* Latin S with caron (U+0160, U+0161) and the Hangul syllables.
IsLetter(r) ==
    \/ r \in 65..90
    \/ r \in 97..122
    \/ r \in {352, 353}
    \/ r \in 44032..55203

\* unicode.IsDigit / the regexp class \d on the code points the model uses.
IsDigit(r) == r \in 48..57

\* unicode.ToLower on the code points the model uses.
ToLowerRune(r) ==
    IF r \in 65..90 THEN r + 32
    ELSE IF r = 352 THEN 353
    ELSE r

\* strings.ToLower
ToLower(s) == [i \in 1..Len(s) |-> ToLowerRune(s[i])]

\* UTF-8 encoding of one code point (up to three bytes: the BMP).
Utf8(r) ==
    IF r < 128 THEN <<r>>
    ELSE IF r < 2048 THEN <<192 + (r \div 64), 128 + (r % 64)>>
    ELSE <<224 + (r \div 4096), 128 + ((r \div 64) % 64), 128 + (r % 64)>>

RECURSIVE Bytes(_)
\* The bytes of a Go string.
Bytes(s) == IF s = <<>> THEN <<>> ELSE Utf8(Head(s)) \o Bytes(Tail(s))

\* len(s) of the source: the length in bytes.
ByteLen(s) == Len(Bytes(s))

RECURSIVE Repeat(_, _)
\* strings.Repeat
Repeat(s, n) == IF n <= 0 THEN <<>> ELSE s \o Repeat(s, n - 1)

RECURSIVE TrimLeftSet(_, _)
\* strings.TrimLeft with the cutset given as a set of runes.
TrimLeftSet(s, cut) ==
    IF s # <<>> /\ Head(s) \in cut THEN TrimLeftSet(Tail(s), cut) ELSE s

RECURSIVE TrimRightSet(_, _)
\* strings.TrimRight with the cutset given as a set of runes.
TrimRightSet(s, cut) ==
    IF s # <<>> /\ s[Len(s)] \in cut
    THEN TrimRightSet(SubSeq(s, 1, Len(s) - 1), cut)
    ELSE s

\* strings.Trim(s, cutset)
Trim(s, cut) == TrimRightSet(TrimLeftSet(s, cut), cut)

\* strings.TrimSpace: trims the runes unicode.IsSpace accepts.
TrimSpace(s) == Trim(s, {9, 10, 11, 12, 13, 32, 133, 160})

\* strings.Contains(s, sub)
Contains(s, sub) ==
    \E i \in 0..(Len(s) - Len(sub)) : SubSeq(s, i + 1, i + Len(sub)) = sub

RECURSIVE SplitOn(_, _)
\* strings.Split(s, sep) for a one-rune separator: always at least one field.
SplitOn(s, sep) ==
    IF \A i \in 1..Len(s) : s[i] # sep THEN <<s>>
    ELSE LET k == CHOOSE i \in 1..Len(s) :
                     s[i] = sep /\ \A j \in 1..(i - 1) : s[j] # sep
         IN  <<SubSeq(s, 1, k - 1)>> \o SplitOn(SubSeq(s, k + 1, Len(s)), sep)

RECURSIVE JoinWith(_, _)
\* strings.Join(parts, sep)
JoinWith(parts, sep) ==
    IF parts = <<>> THEN <<>>
    ELSE IF Len(parts) = 1 THEN parts[1]
    ELSE parts[1] \o sep \o JoinWith(Tail(parts), sep)

\* The integer min and max helpers of the source.
min(a, b) == IF a < b THEN a ELSE b

max(a, b) == IF a > b THEN a ELSE b

(***************************************************************************)
(* TextElement and the TextNormalizer (cleanTesseractOutput).              *)
(***************************************************************************)
\* type TextElement struct { Text string; X int; Y int }
TextElement(text, x, y) == [Text |-> text, X |-> x, Y |-> y]

\* Mutant of warningPatterns: the list without Error:.*
warningPatterns_NoError ==
    << <<87, 97, 114, 110, 105, 110, 103, 58, 32, 73, 110, 118, 97, 108, 105,
         100, 32, 114, 101, 115, 111, 108, 117, 116, 105, 111, 110, 32, -1,
         32, 100, 112, 105, 46, 32, 85, 115, 105, 110, 103, 32, -1,
         32, 105, 110, 115, 116, 101, 97, 100, 46>>,
       <<69, 115, 116, 105, 109, 97, 116, 105, 110, 103, 32, 114, 101, 115,
         111, 108, 117, 116, 105, 111, 110, 32, 97, 115, 32, -1>>,
       <<87, 97, 114, 110, 105, 110, 103, 58, -2>> >>

\* The four regular expressions of cleanTesseractOutput as token sequences:
\* a code point is a literal, -1 is \d+ and -2 is .* (any runes but newline).
\*   Warning: Invalid resolution \d+ dpi\. Using \d+ instead\.
\*   Estimating resolution as \d+
\*   Warning:.*
\*   Error:.*
warningPatterns ==
    << <<87, 97, 114, 110, 105, 110, 103, 58, 32, 73, 110, 118, 97, 108, 105,
         100, 32, 114, 101, 115, 111, 108, 117, 116, 105, 111, 110, 32, -1,
         32, 100, 112, 105, 46, 32, 85, 115, 105, 110, 103, 32, -1,
         32, 105, 110, 115, 116, 101, 97, 100, 46>>,
       <<69, 115, 116, 105, 109, 97, 116, 105, 110, 103, 32, 114, 101, 115,
         111, 108, 117, 116, 105, 111, 110, 32, 97, 115, 32, -1>>,
       <<87, 97, 114, 110, 105, 110, 103, 58, -2>>,
       <<69, 114, 114, 111, 114, 58, -2>> >>

\* The rune is in the class of the token: -1 digits, -2 anything but newline.
InClass(r, tok) == IF tok = -1 THEN IsDigit(r) ELSE r # 10

\* The first index at or after i where the run of runes satisfying the token
\* class (-1: digits, -2: not newline) ends.
RunEnd(s, i, tok) ==
    LET stops == { j \in i..Len(s) : ~InClass(s[j], tok) }
    IN  IF stops = {} THEN Len(s) + 1
        ELSE CHOOSE j \in stops : \A h \in stops : j <= h

\* The index after the run of literal tokens of pat that starts at k.
LiteralEnd(pat, k) ==
    LET classes == { j \in k..Len(pat) : pat[j] < 0 }
    IN  IF classes = {} THEN Len(pat) + 1
        ELSE CHOOSE j \in classes : \A h \in classes : j <= h

RECURSIVE MatchFrom(_, _, _, _)
\* The index after the match of pat[k..] against s starting at index i, or 0
\* when there is none. A greedy \d+ never has to give digits back: in the
\* patterns above it is followed by a space or by the end of the pattern.
MatchFrom(pat, k, s, i) ==
    IF k > Len(pat) THEN i
    ELSE IF pat[k] >= 0
         THEN LET n == LiteralEnd(pat, k) - k
              IN  IF /\ i + n - 1 <= Len(s)
                     /\ s[i] = pat[k]
                     /\ SubSeq(s, i, i + n - 1) = SubSeq(pat, k, k + n - 1)
                  THEN MatchFrom(pat, k + n, s, i + n)
                  ELSE 0
    ELSE IF pat[k] = -1
         THEN IF RunEnd(s, i, -1) = i THEN 0
              ELSE MatchFrom(pat, k + 1, s, RunEnd(s, i, -1))
    ELSE MatchFrom(pat, k + 1, s, RunEnd(s, i, -2))

RECURSIVE ReplaceAllFrom(_, _, _)
\* regexp.ReplaceAllString(s, "") from index i on: leftmost matches, not
\* overlapping.
ReplaceAllFrom(pat, s, i) ==
    LET starts == { k \in i..Len(s) : MatchFrom(pat, 1, s, k) # 0 }
    IN  IF starts = {} THEN SubSeq(s, i, Len(s))
        ELSE LET k == CHOOSE m \in starts : \A h \in starts : m <= h
             IN  SubSeq(s, i, k - 1) \o ReplaceAllFrom(pat, s, MatchFrom(pat, 1, s, k))

RECURSIVE StripPatterns(_, _)
\* The loop over warningPatterns.
StripPatterns(s, k) ==
    IF k > Len(warningPatterns) THEN s
    ELSE StripPatterns(ReplaceAllFrom(warningPatterns[k], s, 1), k + 1)

RECURSIVE ValidLines(_)
\* The trimmed non-empty lines.
ValidLines(lines) ==
    IF lines = <<>> THEN <<>>
    ELSE IF TrimSpace(Head(lines)) # <<>>
         THEN <<TrimSpace(Head(lines))>> \o ValidLines(Tail(lines))
         ELSE ValidLines(Tail(lines))

RECURSIVE GroupLines(_, _, _)
\* The grouping loop: lines of at most 10 bytes collect in currentGroup,
\* a longer line flushes the group and is a unit of its own.
GroupLines(validLines, currentGroup, processedLines) ==
    IF validLines = <<>>
    THEN IF Len(currentGroup) > 0
         THEN Append(processedLines, JoinWith(currentGroup, <<32>>))
         ELSE processedLines
    ELSE IF ByteLen(Head(validLines)) <= 10
         THEN GroupLines(Tail(validLines),
                         Append(currentGroup, Head(validLines)),
                         processedLines)
    ELSE IF Len(currentGroup) > 0
         THEN GroupLines(Tail(validLines), <<>>,
                         Append(Append(processedLines,
                                       JoinWith(currentGroup, <<32>>)),
                                Head(validLines)))
    ELSE GroupLines(Tail(validLines), <<>>,
                    Append(processedLines, Head(validLines)))

cleanTesseractOutput(rawText) ==
    IF rawText = <<>> THEN <<>>
    ELSE LET validLines == ValidLines(SplitOn(StripPatterns(rawText, 1), 10))
         IN  IF Len(validLines) = 0 THEN <<>>
             ELSE IF Len(validLines) = 1 THEN validLines[1]
             ELSE JoinWith(GroupLines(validLines, <<>>, <<>>), <<32, 124, 32>>)

(***************************************************************************)
(* NoiseFilter: filterValidTexts and its predicates, isValidText.          *)
(***************************************************************************)
\* The allow-list of isSignificantShortText, in source order: eleven Korean
\* syllables, nine two-letter English words, eleven symbols.
significantShorts ==
    { <<50504>>, <<51339>>, <<45208>>, <<45796>>, <<47484>>, <<51012>>,
      <<51032>>, <<50640>>, <<47196>>, <<44284>>, <<50752>>,
      <<79, 75>>, <<78, 79>>, <<79, 78>>, <<85, 80>>, <<71, 79>>, <<73, 78>>,
      <<84, 79>>, <<65, 84>>, <<66, 89>>,
      <<64>>, <<35>>, <<36>>, <<37>>, <<38>>, <<42>>, <<43>>, <<45>>, <<61>>,
      <<63>>, <<33>> }

\* ^\d+$ matches, or the text is on the allow-list.
isSignificantShortText(text) ==
    \/ (Len(text) >= 1 /\ \A i \in 1..Len(text) : IsDigit(text[i]))
    \/ text \in significantShorts

isOnlySpecialChars(text) ==
    /\ \A i \in 1..Len(text) : ~IsLetter(text[i]) /\ ~IsDigit(text[i])
    /\ ByteLen(text) > 0

\* The first loop compares byte(char), the low eight bits of each rune, with
\* the first byte of the text; the second loop slices and repeats bytes.
isRepeatingPattern(text) ==
    LET b == Bytes(text)
        n == Len(b)
    IN  IF n < 3 THEN FALSE
        ELSE \/ \A i \in 1..Len(text) : text[i] % 256 = b[1]
             \/ \E i \in 1..(n \div 3) :
                    /\ Repeat(SubSeq(b, 1, i), n \div i) = b
                    /\ n >= i * 3

\* The body of the loop of filterValidTexts: TRUE when elem is appended.
FilterAccepts(elem) ==
    LET text == TrimSpace(elem.Text)
    IN  /\ ~(ByteLen(text) < 1)
        /\ ~(ByteLen(text) <= 2 /\ ~isSignificantShortText(text))
        /\ ~isOnlySpecialChars(text)
        /\ ~isRepeatingPattern(text)

RECURSIVE filterValidTexts_StoresTrimmed(_)
\* Mutant of filterValidTexts: the accepted element is stored with the
\* trimmed text the tests were made on.
filterValidTexts_StoresTrimmed(elements) ==
    IF elements = <<>> THEN <<>>
    ELSE IF FilterAccepts(Head(elements))
         THEN <<TextElement(TrimSpace(Head(elements).Text), Head(elements).X,
                            Head(elements).Y)>>
              \o filterValidTexts_StoresTrimmed(Tail(elements))
         ELSE filterValidTexts_StoresTrimmed(Tail(elements))

RECURSIVE filterValidTexts(_)
filterValidTexts(elements) ==
    IF elements = <<>> THEN <<>>
    ELSE IF FilterAccepts(Head(elements))
         THEN <<Head(elements)>> \o filterValidTexts(Tail(elements))
         ELSE filterValidTexts(Tail(elements))

isValidText(text) ==
    IF ByteLen(text) < 1 THEN FALSE
    ELSE LET trimmed == TrimSpace(text)
         IN  IF ByteLen(trimmed) < 1 THEN FALSE
             ELSE IF Len(trimmed) > 200 THEN FALSE
             ELSE \E i \in 1..Len(trimmed) :
                      IsLetter(trimmed[i]) \/ IsDigit(trimmed[i])

(***************************************************************************)
(* Deduplicator: isDuplicateText, removeDuplicates.                        *)
(***************************************************************************)
\* Mutant of DedupKey: the key is not lower-cased.
DedupKey_CaseSensitive(text) == TrimSpace(text)

\* strings.ToLower(strings.TrimSpace(text)): the key of both functions.
DedupKey(text) == ToLower(TrimSpace(text))

isDuplicateText(text, existing) ==
    \E i \in 1..Len(existing) : DedupKey(existing[i].Text) = DedupKey(text)

RECURSIVE RemoveDuplicatesFrom(_, _, _)
\* The loop of removeDuplicates with its map seen and its slice unique.
RemoveDuplicatesFrom(elements, seen, unique) ==
    IF elements = <<>> THEN unique
    ELSE LET key == DedupKey(Head(elements).Text)
         IN  IF key \notin seen /\ key # <<>>
             THEN RemoveDuplicatesFrom(Tail(elements), seen \cup {key},
                                       Append(unique, Head(elements)))
             ELSE RemoveDuplicatesFrom(Tail(elements), seen, unique)

removeDuplicates(elements) == RemoveDuplicatesFrom(elements, {}, <<>>)

(***************************************************************************)
(* State.                                                                  *)
(***************************************************************************)
VARIABLES
    loopVarShared,  \* the build's range-loop semantics: TRUE when the loop
                    \* variable is one variable for the whole loop (language
                    \* version below 1.22), FALSE when it is fresh per iteration
    enabled,        \* OCRAnalyzer.enabled
    pc,             \* position of the request in imageExtractHandler
    filterType,     \* the type query parameter
    tempFiles,      \* the temporary files that exist
    img,            \* the decoded image: its width and height
    psmIdx,         \* index into psmModes of the next whole-image attempt
    calls,          \* the engine invocations made so far, in order
    fullText,       \* result of recognizeFullImage
    textRegions,    \* result of detectTextRegions
    regionIdx,      \* index of the next region of the loop of ExtractTexts
    results,        \* the slice results of ExtractTexts
    extractErr,     \* the error ExtractTexts returned
    response,       \* the JSON response written by the handler
    serviceReply,   \* what the call of the language model met: <<>> when no
                    \* call was made, else a sequence holding that one record
    mu,             \* OCRAnalyzer.mu: the readers holding it, a writer or none
    reqPc,          \* concurrent requests: the position of each in ExtractTexts
    tesseractPath,  \* OCRAnalyzer.tesseractPath
    environ,        \* the process environment: the value of TESSDATA_PREFIX
    tessdata,       \* the languages whose data is installed for the engine
    clock,          \* the wall clock, in nanoseconds
    reqFile,        \* concurrent requests: the temporary file each one's
                    \* region attempt is using, 0 when it has none
    fnOp,           \* pure-function checks: the function applied
    fnList,         \* pure-function checks: the input list
    fnText,         \* pure-function checks: the input string
    fnOut           \* pure-function checks: the result

vars == <<loopVarShared, enabled, pc, filterType, tempFiles, img, psmIdx,
          calls, fullText, textRegions, regionIdx, results, extractErr,
          response, serviceReply, mu, reqPc, tesseractPath, environ, tessdata,
          clock, reqFile, fnOp, fnList, fnText, fnOut>>

(***************************************************************************)
(* SemanticReconciler: filterTextItemsAdvanced and its helpers.            *)
(* A float64 score is modelled as <<num, den, ulps>>: the exact fraction    *)
(* num/den, den > 0, of the real-number result, and the distance of the    *)
(* float64 result from the float64 nearest to that fraction, in units in   *)
(* the last place. A literal of the source is the nearest float64 of its   *)
(* value: <<num, den>> stands for <<num, den, 0>>. Two different fractions *)
(* of the model are further apart than any rounding error.                 *)
(***************************************************************************)
Ulps(a) == IF Len(a) = 3 THEN a[3] ELSE 0

\* a > b on float64 values.
ScoreGt(a, b) ==
    \/ a[1] * b[2] > b[1] * a[2]
    \/ a[1] * b[2] = b[1] * a[2] /\ Ulps(a) > Ulps(b)

\* The rounding of 1.0 - float64(distance)/float64(maxLen) in
\* calculateTextSimilarity, for <<distance, maxLen>> with maxLen up to 12
\* bytes: the pairs where the float64 result is not the float64 nearest to
\* the exact value, with their distance in units in the last place.
similarityRounding ==
    {
      [ulps |-> -2,
       at |-> {
            <<4, 5>>, <<8, 10>>, <<9, 10>>, <<9, 11>> }],
      [ulps |-> -1,
       at |-> {
            <<2, 11>>, <<5, 6>>, <<5, 12>>, <<7, 12>>, <<10, 12>> }],
      [ulps |-> 1,
       at |-> {
            <<1, 3>>, <<1, 7>>, <<2, 3>>, <<2, 6>>, <<3, 9>>, <<4, 6>>,
            <<4, 7>>, <<4, 12>>, <<6, 9>>, <<6, 11>>, <<7, 10>>, <<8, 12>> }],
      [ulps |-> 2,
       at |-> {
            <<6, 7>>, <<10, 11>> }],
      [ulps |-> 3,
       at |-> {
            <<11, 12>> }],
      [ulps |-> 4,
       at |-> {
            <<8, 9>> }] }

\* The rounding of similarity * lengthRatio in calculateMatchScore, for
\* <<distance, maxLen, minLen>> with maxLen up to 12 bytes: the triples where
\* the float64 result is not the float64 nearest to the exact value, with
\* their distance in units in the last place.
scoreRounding ==
    {
      [ulps |-> -3,
       at |-> {
            <<9, 11, 3>>, <<9, 11, 6>>, <<9, 11, 7>> }],
      [ulps |-> -2,
       at |-> {
            <<4, 5, 3>>, <<4, 5, 5>>, <<5, 6, 1>>, <<5, 6, 2>>, <<5, 6, 4>>,
            <<8, 10, 3>>, <<8, 10, 5>>, <<8, 10, 6>>, <<8, 10, 7>>,
            <<8, 10, 10>>, <<9, 10, 3>>, <<9, 10, 5>>, <<9, 10, 6>>,
            <<9, 10, 7>>, <<9, 10, 10>>, <<9, 11, 5>>, <<9, 11, 10>>,
            <<9, 11, 11>>, <<10, 12, 2>>, <<10, 12, 4>>, <<10, 12, 8>>,
            <<10, 12, 9>>, <<10, 12, 11>> }],
      [ulps |-> -1,
       at |-> {
            <<1, 11, 10>>, <<1, 12, 11>>, <<2, 11, 11>>, <<3, 7, 6>>,
            <<3, 10, 7>>, <<3, 10, 8>>, <<4, 5, 1>>, <<4, 5, 2>>, <<4, 5, 4>>,
            <<5, 6, 3>>, <<5, 6, 5>>, <<5, 6, 6>>, <<5, 7, 3>>, <<5, 7, 6>>,
            <<5, 11, 6>>, <<5, 11, 7>>, <<5, 11, 8>>, <<5, 11, 10>>,
            <<5, 12, 7>>, <<5, 12, 8>>, <<5, 12, 9>>, <<5, 12, 10>>,
            <<5, 12, 11>>, <<5, 12, 12>>, <<6, 10, 7>>, <<7, 11, 6>>,
            <<7, 12, 6>>, <<7, 12, 8>>, <<7, 12, 12>>, <<8, 10, 2>>,
            <<8, 10, 4>>, <<8, 10, 8>>, <<8, 10, 9>>, <<8, 11, 3>>,
            <<8, 11, 4>>, <<8, 11, 5>>, <<8, 11, 6>>, <<8, 11, 7>>,
            <<8, 11, 8>>, <<8, 11, 10>>, <<9, 10, 1>>, <<9, 10, 2>>,
            <<9, 10, 4>>, <<9, 10, 8>>, <<9, 10, 9>>, <<9, 11, 2>>,
            <<9, 11, 4>>, <<9, 11, 8>>, <<9, 11, 9>>, <<10, 12, 3>>,
            <<10, 12, 5>>, <<10, 12, 6>>, <<10, 12, 7>>, <<10, 12, 10>>,
            <<10, 12, 12>> }],
      [ulps |-> 1,
       at |-> {
            <<1, 3, 2>>, <<1, 3, 3>>, <<1, 5, 4>>, <<1, 6, 5>>, <<1, 7, 7>>,
            <<2, 3, 1>>, <<2, 3, 2>>, <<2, 3, 3>>, <<2, 6, 4>>, <<2, 6, 5>>,
            <<2, 6, 6>>, <<2, 10, 8>>, <<2, 10, 9>>, <<2, 12, 10>>,
            <<3, 5, 2>>, <<3, 5, 4>>, <<3, 9, 6>>, <<3, 9, 7>>, <<3, 9, 8>>,
            <<3, 9, 9>>, <<4, 6, 2>>, <<4, 6, 3>>, <<4, 6, 4>>, <<4, 6, 5>>,
            <<4, 6, 6>>, <<4, 7, 7>>, <<4, 9, 5>>, <<4, 9, 7>>, <<4, 12, 8>>,
            <<4, 12, 10>>, <<4, 12, 12>>, <<6, 9, 3>>, <<6, 9, 4>>,
            <<6, 9, 5>>, <<6, 9, 6>>, <<6, 9, 7>>, <<6, 9, 8>>, <<6, 9, 9>>,
            <<6, 10, 4>>, <<6, 10, 8>>, <<6, 10, 9>>, <<6, 11, 7>>,
            <<6, 11, 8>>, <<6, 11, 9>>, <<6, 11, 11>>, <<7, 10, 3>>,
            <<7, 10, 5>>, <<7, 10, 6>>, <<7, 10, 7>>, <<7, 10, 9>>,
            <<7, 10, 10>>, <<8, 12, 4>>, <<8, 12, 5>>, <<8, 12, 6>>,
            <<8, 12, 7>>, <<8, 12, 8>>, <<8, 12, 10>>, <<8, 12, 12>> }],
      [ulps |-> 2,
       at |-> {
            <<6, 7, 1>>, <<6, 7, 2>>, <<6, 7, 4>>, <<6, 7, 5>>, <<6, 7, 7>>,
            <<7, 10, 4>>, <<7, 10, 8>>, <<8, 9, 3>>, <<8, 9, 6>>,
            <<10, 11, 1>>, <<10, 11, 2>>, <<10, 11, 3>>, <<10, 11, 4>>,
            <<10, 11, 5>>, <<10, 11, 6>>, <<10, 11, 7>>, <<10, 11, 8>>,
            <<10, 11, 9>>, <<10, 11, 10>>, <<10, 11, 11>>, <<11, 12, 5>>,
            <<11, 12, 9>>, <<11, 12, 10>>, <<11, 12, 11>> }],
      [ulps |-> 3,
       at |-> {
            <<6, 7, 3>>, <<6, 7, 6>>, <<8, 9, 1>>, <<8, 9, 2>>, <<8, 9, 4>>,
            <<8, 9, 7>>, <<8, 9, 8>>, <<11, 12, 3>>, <<11, 12, 6>>,
            <<11, 12, 7>>, <<11, 12, 12>> }],
      [ulps |-> 4,
       at |-> {
            <<8, 9, 9>>, <<11, 12, 1>>, <<11, 12, 2>>, <<11, 12, 4>>,
            <<11, 12, 8>> }],
      [ulps |-> 5,
       at |-> {
            <<8, 9, 5>> }] }

\* The entry of a rounding table for a key, 0 when the key is not listed.
Rounding(table, key) ==
    IF \E e \in table : key \in e.at
    THEN (CHOOSE e \in table : key \in e.at).ulps
    ELSE 0

min3(a, b, c) ==
    IF a < b /\ a < c THEN a
    ELSE IF b < c THEN b
    ELSE c

RECURSIVE FillRow(_, _, _, _, _)
\* The inner loop over j: row holds dp[i][0..j-1], prev is row i - 1.
FillRow(b1, b2, i, prev, row) ==
    IF Len(row) > Len(b2) THEN row
    ELSE LET j == Len(row)
             cell == min3(prev[j + 1] + 1,
                          row[j] + 1,
                          prev[j] + (IF b1[i] # b2[j] THEN 1 ELSE 0))
         IN  FillRow(b1, b2, i, prev, Append(row, cell))

\* Row i of the table dp, filled left to right from row i - 1.
LevRow(b1, b2, i, prev) == FillRow(b1, b2, i, prev, <<i>>)

RECURSIVE LevRows(_, _, _, _)
\* The outer loop over i; prev is row i - 1.
LevRows(b1, b2, i, prev) ==
    IF i > Len(b1) THEN prev[Len(b2) + 1]
    ELSE LET row == LevRow(b1, b2, i, prev)
         IN  IF Len(row) = Len(b2) + 1    \* row i is complete before row i + 1
             THEN LevRows(b1, b2, i + 1, row)
             ELSE 0

\* The dynamic-programming table over the bytes of the two strings.
levenshteinDistance(str1, str2) ==
    LET b1 == Bytes(str1)
        b2 == Bytes(str2)
    IN  LevRows(b1, b2, 1, [k \in 1..(Len(b2) + 1) |-> k - 1])

calculateTextSimilarity(str1, str2) ==
    IF str1 = str2 THEN <<1, 1>>
    ELSE IF ByteLen(str1) = 0 \/ ByteLen(str2) = 0 THEN <<0, 1>>
    ELSE LET distance == levenshteinDistance(str1, str2)
             maxLen == max(ByteLen(str1), ByteLen(str2))
         IN  <<maxLen - distance, maxLen,
               Rounding(similarityRounding, <<distance, maxLen>>)>>

RECURSIVE FieldsFunc(_, _)
\* strings.FieldsFunc: the maximal runs of runes outside the separator set.
FieldsFunc(s, seps) ==
    LET t == TrimLeftSet(s, seps)
    IN  IF t = <<>> THEN <<>>
        ELSE LET k == IF \A i \in 1..Len(t) : t[i] \notin seps THEN Len(t) + 1
                      ELSE CHOOSE i \in 1..Len(t) :
                               /\ t[i] \in seps
                               /\ \A j \in 1..(i - 1) : t[j] \notin seps
             IN  <<SubSeq(t, 1, k - 1)>> \o FieldsFunc(SubSeq(t, k, Len(t)), seps)

\* The separators are space, '|', '-', ',' and '.'; strings.EqualFold is
\* equality of the lower-cased strings on the code points the model uses.
isWordBoundaryMatch(target, source) ==
    LET sourceWords == FieldsFunc(source, {32, 124, 45, 44, 46})
    IN  \E w \in 1..Len(sourceWords) :
            LET word == TrimSpace(sourceWords[w])
            IN  \/ ToLower(word) = ToLower(target)
                \/ ScoreGt(calculateTextSimilarity(ToLower(word), ToLower(target)),
                           <<8, 10>>)

calculateMatchScore(target, source) ==
    IF target = source THEN <<1, 1>>
    ELSE IF Contains(source, target) \/ Contains(target, source) THEN <<9, 10>>
    ELSE IF isWordBoundaryMatch(target, source) THEN <<85, 100>>
    ELSE LET similarity == calculateTextSimilarity(target, source)
             lo == min(ByteLen(target), ByteLen(source))
             hi == max(ByteLen(target), ByteLen(source))
         IN  <<similarity[1] * lo, similarity[2] * hi,
               Rounding(scoreRounding, <<hi - similarity[1], hi, lo>>)>>

RECURSIVE BestMatchLoop(_, _, _, _, _)
\* The loop of findBestMatchAdvanced from item i on; best is the index of the
\* item whose address was last taken (0: bestMatch is nil).
BestMatchLoop(targetLower, items, i, maxScore, best) ==
    IF i > Len(items) THEN best
    ELSE LET score == calculateMatchScore(targetLower, ToLower(items[i].Text))
         IN  IF ScoreGt(score, maxScore) /\ ScoreGt(score, <<3, 10>>)
             THEN BestMatchLoop(targetLower, items, i + 1, score, i)
             ELSE BestMatchLoop(targetLower, items, i + 1, maxScore, best)

\* Mutant of findBestMatchAdvanced: a zero-valued element instead of nil
\* when no item scores above the threshold.
findBestMatchAdvanced_ZeroValue(targetText, items) ==
    LET best == BestMatchLoop(ToLower(targetText), items, 1, <<0, 1>>, 0)
    IN  IF best = 0 THEN <<TextElement(<<>>, 0, 0)>>
        ELSE IF loopVarShared THEN <<items[Len(items)]>>
        ELSE <<items[best]>>

\* The element bestMatch points to when the loop has ended, as a sequence of
\* length 0 (nil) or 1. bestMatch = &item takes the address of the loop
\* variable: with one variable for the whole loop it holds the last item
\* iterated, with a variable per iteration it holds the item of that
\* iteration.
findBestMatchAdvanced(targetText, items) ==
    LET best == BestMatchLoop(ToLower(targetText), items, 1, <<0, 1>>, 0)
    IN  IF best = 0 THEN <<>>
        ELSE IF loopVarShared THEN <<items[Len(items)]>>
        ELSE <<items[best]>>

RECURSIVE ReconcileLoop_NoSeen(_, _, _, _)
\* Mutant of ReconcileLoop: the entries already consumed are not skipped.
ReconcileLoop_NoSeen(originalItems, filteredList, seen, result) ==
    IF filteredList = <<>> THEN result
    ELSE LET cleanText == Trim(TrimSpace(Head(filteredList)), {34, 39})
             bestMatch == findBestMatchAdvanced(cleanText, originalItems)
         IN  IF cleanText # <<>> /\ bestMatch # <<>>
             THEN ReconcileLoop_NoSeen(originalItems, Tail(filteredList), seen,
                                       Append(result,
                                              TextElement(cleanText,
                                                          bestMatch[1].X,
                                                          bestMatch[1].Y)))
             ELSE ReconcileLoop_NoSeen(originalItems, Tail(filteredList), seen,
                                       result)

RECURSIVE ReconcileLoop(_, _, _, _)
\* The loop of filterTextItemsAdvanced over the comma-separated entries.
ReconcileLoop(originalItems, filteredList, seen, result) ==
    IF filteredList = <<>> THEN result
    ELSE LET cleanText == Trim(TrimSpace(Head(filteredList)), {34, 39})
             bestMatch == findBestMatchAdvanced(cleanText, originalItems)
         IN  IF cleanText = <<>> \/ cleanText \in seen
             THEN ReconcileLoop(originalItems, Tail(filteredList), seen, result)
             ELSE IF bestMatch # <<>>
             THEN ReconcileLoop(originalItems, Tail(filteredList),
                                seen \cup {cleanText},
                                Append(result,
                                       TextElement(cleanText, bestMatch[1].X,
                                                   bestMatch[1].Y)))
             ELSE ReconcileLoop(originalItems, Tail(filteredList), seen, result)

\* Mutant of filterTextItemsAdvanced: the answer is split and matched
\* without the test for "NONE" and for a blank answer.
filterTextItemsAdvanced_NoGuard(originalItems, filteredTexts) ==
    ReconcileLoop(originalItems, SplitOn(filteredTexts, 44), {}, <<>>)

\* "NONE" is <<78, 79, 78, 69>>; the entries are split on ','.
filterTextItemsAdvanced(originalItems, filteredTexts) ==
    IF filteredTexts = <<78, 79, 78, 69>> \/ TrimSpace(filteredTexts) = <<>>
    THEN <<>>
    ELSE ReconcileLoop(originalItems, SplitOn(filteredTexts, 44), {}, <<>>)

(***************************************************************************)
(* RecognitionAdapter and RegionDetector.                                  *)
(***************************************************************************)
\* image.Rect(x0, y0, x1, y1)
Rect(x0, y0, x1, y1) == [Min |-> [X |-> x0, Y |-> y0], Max |-> [X |-> x1, Y |-> y1]]

\* image.Rectangle.Dx and Dy
Dx(r) == r.Max.X - r.Min.X

Dy(r) == r.Max.Y - r.Min.Y

\* Mutant of AcceptContour: the ends of the three bands are accepted.
AcceptContour_Inclusive(image, contour) ==
    IF contour.area >= 100 /\ contour.area <= 50000
    THEN LET rect == contour.rect
         IN  IF Dx(rect) >= 15 /\ Dy(rect) >= 8 /\ Dy(rect) <= 100
             THEN << Rect(max(0, rect.Min.X - 5), max(0, rect.Min.Y - 5),
                          min(image.W, rect.Max.X + 5),
                          min(image.H, rect.Max.Y + 5)) >>
             ELSE <<>>
    ELSE <<>>

\* The body of the loop of detectTextRegions for one contour: the accepted,
\* padded and clamped rectangle as a sequence of length 1, or <<>>.
AcceptContour(image, contour) ==
    IF contour.area > 100 /\ contour.area < 50000
    THEN LET rect == contour.rect
         IN  IF Dx(rect) > 15 /\ Dy(rect) > 8 /\ Dy(rect) < 100
             THEN << Rect(max(0, rect.Min.X - 5), max(0, rect.Min.Y - 5),
                          min(image.W, rect.Max.X + 5),
                          min(image.H, rect.Max.Y + 5)) >>
             ELSE <<>>
    ELSE <<>>

RECURSIVE detectTextRegions(_, _)
\* contours is what gocv.FindContours returned for the image.
detectTextRegions(image, contours) ==
    IF contours = <<>> THEN <<>>
    ELSE AcceptContour(image, Head(contours))
         \o detectTextRegions(image, Tail(contours))

\* centerX, centerY := img.Cols()/2, img.Rows()/2
ImageCentre(image) == [X |-> image.W \div 2, Y |-> image.H \div 2]

\* Mutant of RegionCentre: the size is not halved.
RegionCentre_NoHalving(region) ==
    [X |-> region.Min.X + Dx(region), Y |-> region.Min.Y + Dy(region)]

\* centerX, centerY := region.Min.X+region.Dx()/2, region.Min.Y+region.Dy()/2
RegionCentre(region) ==
    [X |-> region.Min.X + (Dx(region) \div 2),
     Y |-> region.Min.Y + (Dy(region) \div 2)]

\* Mutant of psmModes: the two modes in the other order.
psmModes_Reversed == <<"6", "3">>

\* Mutant of psmModes: a ladder of three modes.
psmModes_ThreeModes == <<"3", "6", "11">>

\* The layout modes of recognizeFullImage, in ladder order.
psmModes == <<"3", "6">>

\* The command line runTesseract builds for one invocation of the engine.
tesseractCommand(path, imagePath, psm) ==
    <<path, imagePath, "stdout", "-l", "kor+eng", "--psm", psm>>

\* Mutant of runTesseract: the error of the process is ignored.
runTesseract_IgnoresError(outcome) == TrimSpace(outcome.output)

\* What runTesseract returns for an outcome of the engine process: "" when
\* cmd.CombinedOutput returned an error (timeout, non-zero exit), else the
\* trimmed output.
runTesseract(outcome) ==
    IF outcome.err THEN <<>> ELSE TrimSpace(outcome.output)

\* The test of recognizeFullImage that ends the ladder.
LadderAccepts(text) == text # <<>> /\ ByteLen(TrimSpace(text)) > 0

\* ExtractTexts after recognizeFullImage: the whole-image element, if any.
FullImageResults(image, text) ==
    IF text # <<>>
    THEN LET cleanedText == cleanTesseractOutput(text)
         IN  IF cleanedText # <<>> /\ isValidText(cleanedText)
             THEN << TextElement(cleanedText, ImageCentre(image).X,
                                 ImageCentre(image).Y) >>
             ELSE <<>>
    ELSE <<>>

\* The body of the region loop of ExtractTexts once recognizeTextInRegion
\* has returned text.
RegionResults(res, region, text) ==
    LET cleanedText == cleanTesseractOutput(text)
    IN  IF /\ cleanedText # <<>>
           /\ isValidText(cleanedText)
           /\ ~isDuplicateText(cleanedText, res)
        THEN Append(res, TextElement(cleanedText, RegionCentre(region).X,
                                     RegionCentre(region).Y))
        ELSE res

(***************************************************************************)
(* The inputs the environment supplies to one image request.               *)
(***************************************************************************)
\* The sizes gocv.IMRead can report for an upload that decodes.
Images == { [W |-> 200, H |-> 120], [W |-> 16, H |-> 9] }

\* Contours gocv.FindContours can report: area and bounding box. In order:
\* accepted; accepted and touching the right and bottom edges of the larger
\* image; area on the lower end of the band; width on the lower end; the
\* whole smaller image.
ContourCandidates ==
    << [area |-> 500, rect |-> Rect(10, 10, 60, 30)],
       [area |-> 900, rect |-> Rect(150, 100, 200, 120)],
       [area |-> 100, rect |-> Rect(0, 0, 30, 20)],
       [area |-> 400, rect |-> Rect(0, 0, 15, 50)],
       [area |-> 120, rect |-> Rect(0, 0, 16, 9)] >>

RECURSIVE SeqOfIndices(_, _)
\* The candidates with index in S and above k, in candidate order.
SeqOfIndices(S, k) ==
    IF k > Len(ContourCandidates) THEN <<>>
    ELSE IF k \in S THEN <<ContourCandidates[k]>> \o SeqOfIndices(S, k + 1)
    ELSE SeqOfIndices(S, k + 1)

\* The contour lists of at most MaxContours contours that lie inside image.
ContourLists(image) ==
    { SeqOfIndices(S, 1) :
        S \in { T \in SUBSET (1..Len(ContourCandidates)) :
                  /\ Cardinality(T) <= MaxContours
                  /\ \A k \in T : /\ ContourCandidates[k].rect.Max.X <= image.W
                                   /\ ContourCandidates[k].rect.Max.Y <= image.H } }

\* What the engine process can do: exit with an error (timeout or non-zero
\* status; the combined output then holds whatever was written, here
\* "Cafe"), or exit normally with one of: whitespace only, "Cafe\n",
\* "Warning: x", "OK", "ok".
EngineOutcomes ==
    { [err |-> TRUE, output |-> <<67, 97, 102, 101>>] }
    \cup
    { [err |-> FALSE, output |-> o] :
        o \in { <<32, 10>>,
                <<67, 97, 102, 101, 10>>,
                <<87, 97, 114, 110, 105, 110, 103, 58, 32, 120>>,
                <<79, 75>>,
                <<111, 107>> } }

\* Message contents the language model can return: "NONE", "cafe",
\* "Cafe,cafe", "\" cafe\"" (quoted, with a space inside the quotes),
\* "OK, Cafe\n".
ModelContents ==
    { <<78, 79, 78, 69>>,
      <<99, 97, 102, 101>>,
      <<67, 97, 102, 101, 44, 99, 97, 102, 101>>,
      <<34, 32, 99, 97, 102, 101, 34>>,
      <<79, 75, 44, 32, 67, 97, 102, 101, 10>> }

\* What a call of the language model can meet: OPENAI_API_KEY is not set;
\* the request fails (network error, timeout of 30 s); the body of the
\* reply does not decode; the reply has no choices; the reply has a choice
\* with one of the message contents.
ServiceReplies ==
    { [key |-> FALSE, sent |-> FALSE, decoded |-> FALSE, choices |-> <<>>],
      [key |-> TRUE, sent |-> FALSE, decoded |-> FALSE, choices |-> <<>>],
      [key |-> TRUE, sent |-> TRUE, decoded |-> FALSE, choices |-> <<>>],
      [key |-> TRUE, sent |-> TRUE, decoded |-> TRUE, choices |-> <<>>] }
    \cup
    { [key |-> TRUE, sent |-> TRUE, decoded |-> TRUE, choices |-> <<c>>] :
        c \in ModelContents }

\* callOpenAI: an error, or the trimmed content of the first choice.
callOpenAI(reply) ==
    IF ~reply.key THEN [err |-> TRUE, result |-> <<>>]
    ELSE IF ~reply.sent THEN [err |-> TRUE, result |-> <<>>]
    ELSE IF ~reply.decoded THEN [err |-> TRUE, result |-> <<>>]
    ELSE IF Len(reply.choices) = 0 THEN [err |-> TRUE, result |-> <<>>]
    ELSE [err |-> FALSE, result |-> TrimSpace(reply.choices[1])]

\* The temporary file of a region attempt, ocr_region_<nanos>.png: the name
\* is determined by the clock value it is made from.
RegionFileName(nanos) == <<"ocr_region", nanos>>

\* Mutant of RemoveFile: the file is left where it is.
RemoveFile_Skipped(files, name) == files

\* os.Remove(name), deferred by the function that made the name.
RemoveFile(files, name) == files \ {name}

\* sync.RWMutex with nobody holding it.
Unlocked == [readers |-> 0, writer |-> FALSE]

\* RLock returns at once unless a writer holds the lock.
RLockReady(m) == ~m.writer

\* Mutant of RLock: the lock is taken for writing.
RLock_Exclusive(m) == [m EXCEPT !.writer = TRUE]

\* ocr.mu.RLock()
RLock(m) == [m EXCEPT !.readers = @ + 1]

\* ocr.mu.RUnlock(), deferred by ExtractTexts.
RUnlock(m) == [m EXCEPT !.readers = @ - 1]

\* JSON bodies of imageExtractHandler.
Failure(status, message) ==
    [status |-> status, success |-> FALSE, text_list |-> <<>>,
     total_count |-> 0, message |-> message]

\* Mutant of Success: total_count is the length of the list ExtractTexts
\* returned, not of the list in the response.
Success_CountsExtracted(finalTexts) ==
    [status |-> 200, success |-> TRUE, text_list |-> finalTexts,
     total_count |-> Len(results), message |-> ""]

Success(finalTexts) ==
    [status |-> 200, success |-> TRUE, text_list |-> finalTexts,
     total_count |-> Len(finalTexts), message |-> ""]

NoResponse == [status |-> 0, success |-> FALSE, text_list |-> <<>>,
               total_count |-> 0, message |-> ""]

NoImage == [W |-> 0, H |-> 0]

(***************************************************************************)
(* One image request: imageExtractHandler calling ExtractTexts.            *)
(***************************************************************************)
fnVars == <<fnOp, fnList, fnText, fnOut>>

\* What NewOCRAnalyzer and the image of the Dockerfile set up, and the clock.
hostVars == <<tesseractPath, environ, tessdata, clock, reqFile>>

Init ==
    /\ loopVarShared \in BOOLEAN
    /\ enabled = TRUE
    /\ pc = "idle"
    /\ filterType = ""
    /\ tempFiles = {}
    /\ img = NoImage
    /\ psmIdx = 1
    /\ calls = <<>>
    /\ fullText = <<>>
    /\ textRegions = <<>>
    /\ regionIdx = 1
    /\ results = <<>>
    /\ extractErr = ""
    /\ response = NoResponse
    /\ serviceReply = <<>>
    /\ mu = Unlocked
    /\ reqPc = <<>>
    /\ tesseractPath = "/usr/bin/tesseract"
    /\ environ = "/usr/share/tesseract-ocr/4.00/tessdata"
    /\ tessdata = {"kor", "eng"}
    /\ clock = 0
    /\ reqFile = <<>>
    /\ fnOp = "request"
    /\ fnList = <<>>
    /\ fnText = <<>>
    /\ fnOut = <<>>

\* imageExtractHandler up to the call of ExtractTexts: the type parameter is
\* checked, the upload is read and saved to a temporary file whose removal is
\* deferred to the return of the handler.
HandlerStart ==
    /\ pc = "idle"
    /\ \E ft \in {"", "store", "food", "menu"}, hasFile \in BOOLEAN, saved \in BOOLEAN :
          /\ filterType' = ft
          /\ IF ft # "" /\ ft # "store" /\ ft # "food"
             THEN /\ response' = Failure(400, "type parameter must be 'store' or 'food'")
                  /\ pc' = "done"
                  /\ tempFiles' = tempFiles
             ELSE IF ~hasFile
             THEN /\ response' = Failure(400, "Image file required")
                  /\ pc' = "done"
                  /\ tempFiles' = tempFiles
             ELSE IF ~saved
             THEN /\ response' = Failure(500, "Failed to save image")
                  /\ pc' = "done"
                  /\ tempFiles' = RemoveFile(tempFiles, "upload")
             ELSE /\ response' = response
                  /\ pc' = "extract"
                  /\ tempFiles' = tempFiles \cup {"upload"}
    /\ UNCHANGED <<loopVarShared, enabled, img, psmIdx, calls, fullText,
                   textRegions, regionIdx, results, extractErr>>
    /\ UNCHANGED <<serviceReply, mu, reqPc>>
    /\ UNCHANGED <<hostVars, fnVars>>

\* ExtractTexts up to the call of recognizeFullImage: the read lock is
\* taken, enabled is checked and the image is decoded.
ExtractStart ==
    /\ pc = "extract"
    /\ RLockReady(mu)
    /\ \E decoded \in BOOLEAN, image \in Images :
          IF ~enabled
          THEN /\ extractErr' = "OCR not enabled"
               /\ pc' = "extracted"
               /\ img' = img
               /\ mu' = RUnlock(RLock(mu))
          ELSE IF ~decoded
          THEN /\ extractErr' = "failed to load image"
               /\ pc' = "extracted"
               /\ img' = img
               /\ mu' = RUnlock(RLock(mu))
          ELSE /\ extractErr' = extractErr
               /\ pc' = "full"
               /\ img' = image
               /\ mu' = RLock(mu)
    /\ UNCHANGED <<loopVarShared, enabled, filterType, tempFiles, psmIdx,
                   calls, fullText, textRegions, regionIdx, results, response>>
    /\ UNCHANGED <<serviceReply, reqPc>>
    /\ UNCHANGED <<hostVars, fnVars>>

\* One iteration of the loop of recognizeFullImage: the engine is run on the
\* upload with the next layout mode. When the loop ends, ExtractTexts adds
\* the whole-image element.
FullImageAttempt ==
    /\ pc = "full"
    /\ \E outcome \in EngineOutcomes :
          LET text == runTesseract(outcome)
          IN  /\ calls' = Append(calls, [target |-> 0, psm |-> psmModes[psmIdx],
                                         err |-> outcome.err,
                                         output |-> outcome.output,
                                         text |-> text])
              /\ IF LadderAccepts(text)
                 THEN /\ fullText' = text
                      /\ results' = FullImageResults(img, text)
                      /\ psmIdx' = psmIdx
                      /\ pc' = "detect"
                 ELSE IF psmIdx < Len(psmModes)
                 THEN /\ psmIdx' = psmIdx + 1
                      /\ UNCHANGED <<fullText, results, pc>>
                 ELSE /\ fullText' = <<>>
                      /\ results' = FullImageResults(img, <<>>)
                      /\ psmIdx' = psmIdx
                      /\ pc' = "detect"
    /\ UNCHANGED <<loopVarShared, enabled, filterType, tempFiles, img,
                   textRegions, regionIdx, extractErr, response>>
    /\ UNCHANGED <<serviceReply, mu, reqPc>>
    /\ UNCHANGED <<hostVars, fnVars>>

\* ExtractTexts calls detectTextRegions.
DetectRegions ==
    /\ pc = "detect"
    /\ \E contours \in ContourLists(img) :
          textRegions' = detectTextRegions(img, contours)
    /\ regionIdx' = 1
    /\ pc' = "regions"
    /\ UNCHANGED <<loopVarShared, enabled, filterType, tempFiles, img, psmIdx,
                   calls, fullText, results, extractErr, response>>
    /\ UNCHANGED <<serviceReply, mu, reqPc>>
    /\ UNCHANGED <<hostVars, fnVars>>

\* One iteration of the region loop of ExtractTexts up to the engine run
\* of recognizeTextInRegion: an empty region ends the call; otherwise the
\* name of the temporary file is made, its removal is deferred and the
\* preprocessed region is written. When the write fails the call returns ""
\* and the deferred removal runs.
RegionWrite ==
    /\ pc = "regions"
    /\ regionIdx <= Len(textRegions)
    /\ \E written \in BOOLEAN :
          LET region == textRegions[regionIdx]
              roiEmpty == Dx(region) <= 0 \/ Dy(region) <= 0
          IN  IF roiEmpty
              THEN /\ results' = RegionResults(results, region, <<>>)
                   /\ regionIdx' = regionIdx + 1
                   /\ UNCHANGED <<pc, tempFiles>>
              ELSE IF ~written
              THEN /\ results' = RegionResults(results, region, <<>>)
                   /\ regionIdx' = regionIdx + 1
                   /\ tempFiles' = RemoveFile(tempFiles, "region")
                   /\ pc' = pc
              ELSE /\ tempFiles' = tempFiles \cup {"region"}
                   /\ pc' = "engine"
                   /\ UNCHANGED <<results, regionIdx>>
    /\ UNCHANGED <<loopVarShared, enabled, filterType, img, psmIdx, calls,
                   fullText, textRegions, extractErr, response>>
    /\ UNCHANGED <<serviceReply, mu, reqPc>>
    /\ UNCHANGED <<hostVars, fnVars>>

\* The rest of recognizeTextInRegion and of the iteration: the engine is run
\* on the temporary file with layout mode 8, the deferred removal of the
\* file runs, and ExtractTexts adds the element of the region.
RegionEngine ==
    /\ pc = "engine"
    /\ \E outcome \in EngineOutcomes :
          LET region == textRegions[regionIdx]
              text == runTesseract(outcome)
          IN  /\ calls' = Append(calls, [target |-> regionIdx, psm |-> "8",
                                         err |-> outcome.err,
                                         output |-> outcome.output,
                                         text |-> text])
              /\ results' = RegionResults(results, region, text)
    /\ regionIdx' = regionIdx + 1
    /\ tempFiles' = RemoveFile(tempFiles, "region")
    /\ pc' = "regions"
    /\ UNCHANGED <<loopVarShared, enabled, filterType, img, psmIdx,
                   fullText, textRegions, extractErr, response>>
    /\ UNCHANGED <<serviceReply, mu, reqPc>>
    /\ UNCHANGED <<hostVars, fnVars>>

\* The end of ExtractTexts: removeDuplicates, filterValidTexts, return; the
\* deferred release of the read lock runs.
ExtractFinish ==
    /\ pc = "regions"
    /\ regionIdx > Len(textRegions)
    /\ results' = filterValidTexts(removeDuplicates(results))
    /\ mu' = RUnlock(mu)
    /\ pc' = "extracted"
    /\ UNCHANGED <<loopVarShared, enabled, filterType, tempFiles, img, psmIdx,
                   calls, fullText, textRegions, regionIdx, extractErr, response>>
    /\ UNCHANGED <<serviceReply, reqPc>>
    /\ UNCHANGED <<hostVars, fnVars>>

\* Mutant of filterNames: when the call of the language model fails the
\* list is returned as it is, without an error.
filterNames_BestEffort(textList, reply) ==
    IF Len(textList) = 0 THEN [err |-> FALSE, list |-> <<>>]
    ELSE IF callOpenAI(reply).err THEN [err |-> FALSE, list |-> textList]
    ELSE [err |-> FALSE,
          list |-> filterTextItemsAdvanced(textList, callOpenAI(reply).result)]

\* filterStoreNames and filterFoodNames, which differ in the prompt only.
filterNames(textList, reply) ==
    IF Len(textList) = 0 THEN [err |-> FALSE, list |-> <<>>]
    ELSE IF callOpenAI(reply).err THEN [err |-> TRUE, list |-> <<>>]
    ELSE [err |-> FALSE,
          list |-> filterTextItemsAdvanced(textList, callOpenAI(reply).result)]

\* imageExtractHandler after ExtractTexts has returned: the error reply, or
\* the list as it is, or the list reconciled with the category answer; the
\* deferred removal of the upload runs. The language model is called when
\* a category is asked for and the list is not empty.
HandlerRespond ==
    /\ pc = "extracted"
    /\ \E reply \in ServiceReplies :
          LET called == extractErr = "" /\ filterType # "" /\ Len(results) # 0
          IN  /\ ~called => ~reply.key
              /\ serviceReply' = IF called THEN <<reply>> ELSE <<>>
              /\ response' =
                     IF extractErr # "" THEN Failure(500, "OCR failed")
                     ELSE IF filterType = "" THEN Success(results)
                     ELSE IF filterNames(results, reply).err
                     THEN Failure(500, IF filterType = "store"
                                       THEN "Store name filtering failed"
                                       ELSE "Food name filtering failed")
                     ELSE Success(filterNames(results, reply).list)
    /\ tempFiles' = RemoveFile(tempFiles, "upload")
    /\ pc' = "done"
    /\ UNCHANGED <<loopVarShared, enabled, filterType, img, psmIdx, calls,
                   fullText, textRegions, regionIdx, results, extractErr>>
    /\ UNCHANGED <<mu, reqPc>>
    /\ UNCHANGED <<hostVars, fnVars>>

Next ==
    \/ HandlerStart
    \/ ExtractStart
    \/ FullImageAttempt
    \/ DetectRegions
    \/ RegionWrite
    \/ RegionEngine
    \/ ExtractFinish
    \/ HandlerRespond

Spec == Init /\ [][Next]_vars

\* Where the request is: its position in the handler and the indices of the
\* two loops of ExtractTexts. Every action of Next changes it.
position == <<pc, psmIdx, regionIdx>>

\* A step of a request that has not returned, as far as its position shows
\* it. It can be taken exactly when the request has not returned.
RequestStep ==
    /\ pc # "done"
    /\ pc' \in {"extract", "full", "detect", "regions", "engine", "extracted",
                "done"}
    /\ psmIdx' \in 1..Len(psmModes)
    /\ regionIdx' \in 1..(MaxContours + 1)

\* The request runs in the goroutine the HTTP server starts for it, and every
\* step it waits for is bounded: an engine run by the 15 s context of
\* runTesseract, the call of the language model by the 30 s timeout of its
\* HTTP client. So a request that has not returned takes its next step.
SpecLive == Init /\ [][Next]_vars /\ WF_position(RequestStep)

(***************************************************************************)
(* The pure functions applied to bounded inputs.                           *)
(***************************************************************************)
\* All sequences over T of length at most n.
SeqsUpTo(T, n) == UNION { [1..k -> T] : k \in 0..n }

\* Texts of the lists given to removeDuplicates and filterValidTexts:
\* "Cafe", "cafe", " cafe", "", " ", "OK", "ok", "aaa".
ListTexts ==
    { <<67, 97, 102, 101>>, <<99, 97, 102, 101>>, <<32, 99, 97, 102, 101>>,
      <<>>, <<32>>, <<79, 75>>, <<111, 107>>, <<97, 97, 97>> }

\* Runes of the texts given to isRepeatingPattern: 'a', 'b', U+0161 (s with
\* caron, UTF-8 C5 A1) and U+AC00 (a Hangul syllable, UTF-8 EA B0 80).
PatternRunes == {97, 98, 353, 44032}

\* Texts of the original elements given to the reconciler: "Cafe", "Bank",
\* "a-b", "cafes", "One" and a misread of the Korean name McDonald's
\* (U+B9E5 U+B3C4 U+B0D8 U+B4DC).
OriginalTexts ==
    { <<67, 97, 102, 101>>, <<66, 97, 110, 107>>, <<97, 45, 98>>,
      <<99, 97, 102, 101, 115>>, <<79, 110, 101>>,
      <<47589, 46020, 45272, 46300>>,
      <<97, 98, 99, 100, 101, 102, 103, 104, 105, 106>> }

\* Category answers given to the reconciler: "NONE", " ", "", "cafe",
\* "Cafe,cafe", "\" cafe\"", "-", "bank, cafe", "cafa", "xyz", "NONE,cafe",
\* "cafe, cafe,,bank", "abcxxxxxxx" and the Korean name McDonald's (U+B9E5
\* U+B3C4 U+B0A0 U+B4DC).
CategoryAnswers ==
    { <<78, 79, 78, 69>>, <<32>>, <<>>, <<99, 97, 102, 101>>,
      <<47589, 46020, 45216, 46300>>,
      <<67, 97, 102, 101, 44, 99, 97, 102, 101>>,
      <<34, 32, 99, 97, 102, 101, 34>>,
      <<45>>,
      <<98, 97, 110, 107, 44, 32, 99, 97, 102, 101>>,
      <<99, 97, 102, 97>>,
      <<120, 121, 122>>,
      <<78, 79, 78, 69, 44, 99, 97, 102, 101>>,
      <<99, 97, 102, 101, 44, 32, 99, 97, 102, 101, 44, 44, 98, 97, 110, 107>>,
      <<97, 98, 99, 120, 120, 120, 120, 120, 120, 120>> }

\* Runes of the short texts given to filterValidTexts: '4', 'a', '-', ' ',
\* U+AC00 (a Hangul syllable that is not on the allow-list of
\* isSignificantShortText) and U+C548 (one that is).
ShortRunes == {52, 97, 45, 32, 44032, 50504}

\* Lines of the raw engine outputs given to cleanTesseractOutput:
\* "Warning: Invalid resolution 300 dpi. Using 70 instead.",
\* "Estimating resolution as 300", "Error: x", "HELLO", " a", "b",
\* "LongLineHere", "Estimating", "resolution", "as 300", four Hangul
\* syllables (U+AC00 U+B098 U+B2E4 U+B77C, 12 bytes) and the empty line.
RawLines ==
    { <<87, 97, 114, 110, 105, 110, 103, 58, 32, 73, 110, 118, 97, 108,
        105, 100, 32, 114, 101, 115, 111, 108, 117, 116, 105, 111, 110, 32,
        51, 48, 48, 32, 100, 112, 105, 46, 32, 85, 115, 105, 110, 103, 32,
        55, 48, 32, 105, 110, 115, 116, 101, 97, 100, 46>>,
      <<69, 115, 116, 105, 109, 97, 116, 105, 110, 103, 32, 114, 101, 115,
        111, 108, 117, 116, 105, 111, 110, 32, 97, 115, 32, 51, 48, 48>>,
      <<69, 114, 114, 111, 114, 58, 32, 120>>,
      <<72, 69, 76, 76, 79>>,
      <<32, 97>>,
      <<98>>,
      <<76, 111, 110, 103, 76, 105, 110, 101, 72, 101, 114, 101>>,
      <<69, 115, 116, 105, 109, 97, 116, 105, 110, 103>>,
      <<114, 101, 115, 111, 108, 117, 116, 105, 111, 110>>,
      <<97, 115, 32, 51, 48, 48>>,
      <<44032, 45208, 45796, 46972>>,
      <<>> }

\* The raw engine outputs: up to MaxRawLines lines joined by newlines.
RawTexts == { JoinWith(ls, <<10>>) : ls \in SeqsUpTo(RawLines, MaxRawLines) }

\* The list whose i-th element has the i-th text, at a position of its own.
ElementsOf(texts) ==
    [i \in 1..Len(texts) |-> TextElement(texts[i], 10 * i, 10 * i + 5)]

\* The language data a host can hold: what the Dockerfile installs, or
\* English alone.
TessdataInstalls == {{"kor", "eng"}, {"eng"}}

\* Strings given to levenshteinDistance: "", "a", "ab", "ba", "abc", "kitten",
\* "sitten", U+AC00, U+AC01, U+AC00 U+B098 and the Korean name McDonald's
\* with its misreading (one syllable differs: U+B0A0, U+B0D8).
DistanceTexts ==
    { <<>>, <<97>>, <<97, 98>>, <<98, 97>>, <<97, 98, 99>>,
      <<107, 105, 116, 116, 101, 110>>, <<115, 105, 116, 116, 101, 110>>,
      <<44032>>, <<44033>>, <<44032, 45208>>,
      <<47589, 46020, 45216, 46300>>, <<47589, 46020, 45272, 46300>> }

\* Images given to detectTextRegions: those of the requests and one wide
\* enough for a contour of the largest areas.
DetectorImages == Images \cup { [W |-> 600, H |-> 120] }

\* Contours given to detectTextRegions, by area and bounding box: one well
\* inside the bands; then the two ends of each band and their neighbours
\* outside: area 100 and 99, area 50000 and 50001, width 15 and 14, height 8
\* and 7, height 100 and 101; and one just inside every band.
BandContours ==
    { [area |-> 500, rect |-> Rect(10, 10, 60, 30)],
      [area |-> 100, rect |-> Rect(0, 0, 30, 20)],
      [area |-> 99, rect |-> Rect(0, 0, 30, 20)],
      [area |-> 50000, rect |-> Rect(20, 10, 540, 109)],
      [area |-> 50001, rect |-> Rect(20, 10, 540, 109)],
      [area |-> 400, rect |-> Rect(0, 0, 15, 50)],
      [area |-> 400, rect |-> Rect(0, 0, 14, 50)],
      [area |-> 150, rect |-> Rect(0, 0, 30, 8)],
      [area |-> 150, rect |-> Rect(0, 0, 30, 7)],
      [area |-> 2000, rect |-> Rect(0, 0, 30, 100)],
      [area |-> 2000, rect |-> Rect(0, 0, 30, 101)],
      [area |-> 101, rect |-> Rect(0, 0, 16, 9)] }

\* The lists of at most MaxContours of these contours that lie inside image.
BandContourLists(image) ==
    SeqsUpTo({ c \in BandContours : /\ c.rect.Max.X <= image.W
                                     /\ c.rect.Max.Y <= image.H },
             MaxContours)

InitFn ==
    /\ enabled = TRUE
    /\ pc = "fn"
    /\ filterType = ""
    /\ tempFiles = {}
    /\ img = NoImage
    /\ psmIdx = 1
    /\ calls = <<>>
    /\ fullText = <<>>
    /\ textRegions = <<>>
    /\ regionIdx = 1
    /\ results = <<>>
    /\ extractErr = ""
    /\ response = NoResponse
    /\ serviceReply = <<>>
    /\ mu = Unlocked
    /\ reqPc = <<>>
    /\ fnOut = <<>>
    /\ tesseractPath = "/usr/bin/tesseract"
    /\ environ = "/usr/share/tesseract-ocr/4.00/tessdata"
    /\ clock = 0
    /\ reqFile = <<>>
    /\ \/ /\ fnOp = "list"
          /\ fnList \in { ElementsOf(t) : t \in SeqsUpTo(ListTexts, MaxList) }
          /\ fnText = <<>>
       \/ /\ fnOp = "list"
          /\ fnList \in { ElementsOf(<<t>>) : t \in SeqsUpTo(ShortRunes, MaxShortLen) }
          /\ fnText = <<>>
       \/ /\ fnOp = "text"
          /\ fnList = <<>>
          /\ fnText \in SeqsUpTo(PatternRunes, MaxTextLen)
       \/ /\ fnOp = "raw"
          /\ fnList = <<>>
          /\ fnText \in RawTexts
       \/ /\ fnOp = "originals"
          /\ fnList \in { ElementsOf(t) : t \in SeqsUpTo(OriginalTexts, MaxOriginals) }
          /\ fnText \in CategoryAnswers
       \/ /\ fnOp = "engine"
          /\ fnList = <<>>
          /\ fnText = <<>>
       \/ /\ fnOp = "pair"
          /\ fnList \in DistanceTexts \X DistanceTexts
          /\ fnText = <<>>
       \/ /\ fnOp = "contours"
          /\ fnList \in { <<image, contours>> :
                             image \in DetectorImages,
                             contours \in UNION { BandContourLists(i) :
                                                     i \in DetectorImages } }
          /\ \A k \in 1..Len(fnList[2]) :
                 /\ fnList[2][k].rect.Max.X <= fnList[1].W
                 /\ fnList[2][k].rect.Max.Y <= fnList[1].H
          /\ fnText = <<>>
    /\ tessdata \in (IF fnOp = "engine" THEN TessdataInstalls ELSE {{"kor", "eng"}})
    \* only the reconciler has a loop whose variable's address is taken
    /\ loopVarShared \in (IF fnOp = "originals" THEN BOOLEAN ELSE {FALSE})

requestVars == <<loopVarShared, enabled, pc, filterType, tempFiles, img, psmIdx,
                 calls, fullText, textRegions, regionIdx, results, extractErr,
                 response, serviceReply, mu, reqPc, tesseractPath, environ,
                 tessdata, clock, reqFile>>

ApplyRemoveDuplicates ==
    /\ fnOp = "list"
    /\ fnOp' = "removeDuplicates"
    /\ fnOut' = removeDuplicates(fnList)
    /\ UNCHANGED <<fnList, fnText>>
    /\ UNCHANGED requestVars

\* filterValidTexts applied once and applied to its own result.
ApplyFilterValidTexts ==
    /\ fnOp = "list"
    /\ fnOp' = "filterValidTexts"
    /\ fnOut' = [once |-> filterValidTexts(fnList),
                 twice |-> filterValidTexts(filterValidTexts(fnList))]
    /\ UNCHANGED <<fnList, fnText>>
    /\ UNCHANGED requestVars

ApplyIsRepeatingPattern ==
    /\ fnOp = "text"
    /\ fnOp' = "isRepeatingPattern"
    /\ fnOut' = isRepeatingPattern(fnText)
    /\ UNCHANGED <<fnList, fnText>>
    /\ UNCHANGED requestVars

ApplyFilterTextItemsAdvanced ==
    /\ fnOp = "originals"
    /\ fnOp' = "filterTextItemsAdvanced"
    /\ fnOut' = filterTextItemsAdvanced(fnList, fnText)
    /\ UNCHANGED <<fnList, fnText>>
    /\ UNCHANGED requestVars

ApplyCleanTesseractOutput ==
    /\ fnOp = "raw"
    /\ fnOp' = "cleanTesseractOutput"
    /\ fnOut' = cleanTesseractOutput(fnText)
    /\ UNCHANGED <<fnList, fnText>>
    /\ UNCHANGED requestVars

\* runTesseract on a temporary file with one layout mode: the command it
\* builds and the text it returns for what the engine did.
ApplyRunTesseract ==
    /\ fnOp = "engine"
    /\ fnOp' = "runTesseract"
    /\ \E imagePath \in {"upload", "region"}, psm \in {"3", "6", "8"},
          outcome \in EngineOutcomes :
          fnOut' = [command |-> tesseractCommand(tesseractPath, imagePath, psm),
                    text |-> runTesseract(outcome)]
    /\ UNCHANGED <<fnList, fnText>>
    /\ UNCHANGED requestVars

\* levenshteinDistance on a pair of strings, in both orders.
ApplyLevenshteinDistance ==
    /\ fnOp = "pair"
    /\ fnOp' = "levenshteinDistance"
    /\ fnOut' = [forward |-> levenshteinDistance(fnList[1], fnList[2]),
                 backward |-> levenshteinDistance(fnList[2], fnList[1])]
    /\ UNCHANGED <<fnList, fnText>>
    /\ UNCHANGED requestVars

\* detectTextRegions on an image and the contours found in it.
ApplyDetectTextRegions ==
    /\ fnOp = "contours"
    /\ fnOp' = "detectTextRegions"
    /\ fnOut' = detectTextRegions(fnList[1], fnList[2])
    /\ UNCHANGED <<fnList, fnText>>
    /\ UNCHANGED requestVars

NextFn ==
    \/ ApplyRemoveDuplicates
    \/ ApplyFilterValidTexts
    \/ ApplyIsRepeatingPattern
    \/ ApplyFilterTextItemsAdvanced
    \/ ApplyCleanTesseractOutput
    \/ ApplyRunTesseract
    \/ ApplyLevenshteinDistance
    \/ ApplyDetectTextRegions

SpecFn == InitFn /\ [][NextFn]_vars

(***************************************************************************)
(* Concurrent image requests in ExtractTexts: the lock of the analyzer.    *)
(* The one OCRAnalyzer is shared by the goroutines serving the requests.   *)
(***************************************************************************)
Requests == 1..MaxRequests

InitConc ==
    /\ loopVarShared \in BOOLEAN
    /\ enabled = TRUE
    /\ pc = "concurrent"
    /\ filterType = ""
    /\ tempFiles = {}
    /\ img = NoImage
    /\ psmIdx = 1
    /\ calls = <<>>
    /\ fullText = <<>>
    /\ textRegions = <<>>
    /\ regionIdx = 1
    /\ results = <<>>
    /\ extractErr = ""
    /\ response = NoResponse
    /\ serviceReply = <<>>
    /\ mu = Unlocked
    /\ reqPc = [r \in Requests |-> "idle"]
    /\ tesseractPath = "/usr/bin/tesseract"
    /\ environ = "/usr/share/tesseract-ocr/4.00/tessdata"
    /\ tessdata = {"kor", "eng"}
    /\ clock = 0
    /\ reqFile = [r \in Requests |-> <<>>]
    /\ fnOp = "concurrent"
    /\ fnList = <<>>
    /\ fnText = <<>>
    /\ fnOut = <<>>

singleVars == <<loopVarShared, enabled, pc, filterType, img, psmIdx, calls,
                fullText, textRegions, regionIdx, results, extractErr,
                response, serviceReply, tesseractPath, environ, tessdata>>

\* The temporary directory, the clock and the file each request is using.
fileVars == <<tempFiles, clock, reqFile>>

\* Request r calls ExtractTexts: ocr.mu.RLock() returns and the release is
\* deferred.
EnterExtractTexts(r) ==
    /\ reqPc[r] = "idle"
    /\ RLockReady(mu)
    /\ mu' = RLock(mu)
    /\ reqPc' = [reqPc EXCEPT ![r] = "locked"]
    /\ UNCHANGED <<singleVars, fileVars, fnVars>>

\* The test of enabled and the decoding of the image: either can end the
\* call with an error, and the deferred release runs.
CheckAndDecode(r) ==
    /\ reqPc[r] = "locked"
    /\ \E decoded \in BOOLEAN :
          IF ~enabled
          THEN /\ mu' = RUnlock(mu)
               /\ reqPc' = [reqPc EXCEPT ![r] = "notEnabled"]
          ELSE IF ~decoded
          THEN /\ mu' = RUnlock(mu)
               /\ reqPc' = [reqPc EXCEPT ![r] = "decodeFailed"]
          ELSE /\ mu' = mu
               /\ reqPc' = [reqPc EXCEPT ![r] = "full"]
    /\ UNCHANGED <<singleVars, fileVars, fnVars>>

\* recognizeFullImage, detectTextRegions and the region loop run with the
\* read lock held.
RecognizeFull(r) ==
    /\ reqPc[r] = "full"
    /\ reqPc' = [reqPc EXCEPT ![r] = "detect"]
    /\ UNCHANGED <<mu, singleVars, fileVars, fnVars>>

DetectTextRegions(r) ==
    /\ reqPc[r] = "detect"
    /\ reqPc' = [reqPc EXCEPT ![r] = "regions"]
    /\ UNCHANGED <<mu, singleVars, fileVars, fnVars>>

\* The region loop ends: there is no region, or none is left.
RecognizeRegions(r) ==
    /\ reqPc[r] = "regions"
    /\ reqPc' = [reqPc EXCEPT ![r] = "finish"]
    /\ UNCHANGED <<mu, singleVars, fileVars, fnVars>>

\* recognizeTextInRegion up to the engine run: the name of the temporary
\* file is made from the clock, its removal is deferred and the region is
\* written. When the write fails the call returns and the deferred removal
\* runs.
RegionTempFile(r) ==
    /\ reqPc[r] = "regions"
    /\ \E written \in BOOLEAN :
          LET tempFile == RegionFileName(clock)
          IN  IF written
              THEN /\ tempFiles' = tempFiles \cup {tempFile}
                   /\ reqFile' = [reqFile EXCEPT ![r] = <<tempFile>>]
                   /\ reqPc' = [reqPc EXCEPT ![r] = "engine"]
              ELSE /\ tempFiles' = RemoveFile(tempFiles, tempFile)
                   /\ reqFile' = reqFile
                   /\ reqPc' = reqPc
    /\ UNCHANGED <<mu, clock, singleVars, fnVars>>

\* The engine has run on the temporary file of the request; the deferred
\* removal of the file runs and the loop goes on.
RegionEngineRun(r) ==
    /\ reqPc[r] = "engine"
    /\ tempFiles' = RemoveFile(tempFiles, reqFile[r][1])
    /\ reqFile' = [reqFile EXCEPT ![r] = <<>>]
    /\ reqPc' = [reqPc EXCEPT ![r] = "regions"]
    /\ UNCHANGED <<mu, clock, singleVars, fnVars>>

\* Time passes: the clock advances by one nanosecond.
Tick ==
    /\ clock < MaxClock
    /\ clock' = clock + 1
    /\ UNCHANGED <<mu, reqPc, tempFiles, reqFile, singleVars, fnVars>>

\* ExtractTexts returns its list: the deferred release runs.
ReturnExtractTexts(r) ==
    /\ reqPc[r] = "finish"
    /\ mu' = RUnlock(mu)
    /\ reqPc' = [reqPc EXCEPT ![r] = "returned"]
    /\ UNCHANGED <<singleVars, fileVars, fnVars>>

NextConc ==
    \/ \E r \in Requests :
           \/ EnterExtractTexts(r)
           \/ CheckAndDecode(r)
           \/ RecognizeFull(r)
           \/ DetectTextRegions(r)
           \/ RecognizeRegions(r)
           \/ RegionTempFile(r)
           \/ RegionEngineRun(r)
           \/ ReturnExtractTexts(r)
    \/ Tick

SpecConc == InitConc /\ [][NextConc]_vars

(***************************************************************************)
(* Properties.                                                             *)
(***************************************************************************)
RECURSIVE RestrictFrom(_, _, _)
\* The members of L at the indices of S that are at least i, in order.
RestrictFrom(L, S, i) ==
    IF i > Len(L) THEN <<>>
    ELSE IF i \in S THEN <<L[i]>> \o RestrictFrom(L, S, i + 1)
    ELSE RestrictFrom(L, S, i + 1)

\* The subsequence of L at the indices of S.
Restrict(L, S) == RestrictFrom(L, S, 1)

\* Two texts are equal when compared case-insensitively.
SameIgnoringCase(a, b) ==
    /\ Len(a) = Len(b)
    /\ \A i \in 1..Len(a) : ToLowerRune(a[i]) = ToLowerRune(b[i])

\* The request has returned a list: the handler answered with success.
ListReturned == pc = "done" /\ response.success

\* C1: in every list returned for an image request, unfiltered or
\* reconciled, no two elements have texts that are equal when compared
\* case-insensitively.
C1_NoCaseInsensitiveDuplicates ==
    ListReturned =>
        \A i, j \in 1..Len(response.text_list) :
            i < j => ~SameIgnoringCase(response.text_list[i].Text,
                                       response.text_list[j].Text)

\* The match score of the candidate text against the i-th original element.
ScoreAgainst(candidate, originals, i) ==
    calculateMatchScore(ToLower(candidate), ToLower(originals[i].Text))

\* C2: every output element of the reconciler carries the x,y of an original
\* element that has the highest match score for the element's candidate
\* text, for every list of two or more original elements.
C2_CoordinatesOfBestMatch ==
    (fnOp = "filterTextItemsAdvanced" /\ Len(fnList) >= 2) =>
        \A k \in 1..Len(fnOut) :
            \E i \in 1..Len(fnList) :
                /\ fnOut[k].X = fnList[i].X
                /\ fnOut[k].Y = fnList[i].Y
                /\ \A j \in 1..Len(fnList) :
                       ~ScoreGt(ScoreAgainst(fnOut[k].Text, fnList, j),
                                ScoreAgainst(fnOut[k].Text, fnList, i))

\* C3: the reconciler never invents a coordinate: every output element has
\* the (x,y) pair of some original element, and the output is empty when the
\* original list is empty.
C3_NoInventedCoordinate ==
    fnOp = "filterTextItemsAdvanced" =>
        /\ \A k \in 1..Len(fnOut) :
               \E i \in 1..Len(fnList) :
                   fnOut[k].X = fnList[i].X /\ fnOut[k].Y = fnList[i].Y
        /\ (fnList = <<>> => fnOut = <<>>)

\* Witness of C3: the reconciler has returned elements for a list of two or
\* more originals and an answer with an entry that matches none of them.
C3_Witness ==
    /\ fnOp = "filterTextItemsAdvanced"
    /\ Len(fnList) >= 2
    /\ Len(fnOut) >= 1
    /\ Len(fnOut) < Len(SplitOn(fnText, 44))

\* C4: every element collected or returned for an image of width W and
\* height H satisfies 0 <= x < W and 0 <= y < H.
C4_CoordinatesInsideImage ==
    LET Inside(e) == 0 <= e.X /\ e.X < img.W /\ 0 <= e.Y /\ e.Y < img.H
    IN  /\ \A i \in 1..Len(results) : Inside(results[i])
        /\ \A i \in 1..Len(response.text_list) : Inside(response.text_list[i])

\* Witness of C4: a reconciled list has been returned that holds the element
\* of a region clamped at the right and bottom edges of the image.
C4_Witness ==
    /\ ListReturned
    /\ filterType # ""
    /\ \E i \in 1..Len(response.text_list), k \in 1..Len(textRegions) :
          /\ textRegions[k].Max.X = img.W
          /\ textRegions[k].Max.Y = img.H
          /\ textRegions[k].Min.X > 0
          /\ response.text_list[i].X > textRegions[k].Min.X
          /\ response.text_list[i].Y > textRegions[k].Min.Y

\* C5: every element of a returned list has a text that is non-empty, has
\* no leading or trailing whitespace, is at most 200 characters long and
\* contains at least one letter or digit.
C5_TextsWellFormed ==
    ListReturned =>
        \A i \in 1..Len(response.text_list) :
            LET text == response.text_list[i].Text
            IN  /\ text # <<>>
                /\ TrimSpace(text) = text
                /\ Len(text) <= 200
                /\ \E c \in 1..Len(text) : IsLetter(text[c]) \/ IsDigit(text[c])

\* The invocations of the engine on the whole image, in order.
FullCalls == SelectSeq(calls, LAMBDA c : c.target = 0)

\* The engine process failed or wrote nothing but whitespace.
NoText(call) == call.err \/ TrimSpace(call.output) = <<>>

\* ExtractTexts has decoded the image and recognizeFullImage has returned.
LadderDone ==
    pc \in {"detect", "regions", "engine", "extracted", "done"} /\ img # NoImage

\* C6: whole-image recognition tries PSM 3, then PSM 6; the second mode is
\* invoked if and only if the first failed or returned an empty trimmed
\* result; the call returns the first non-empty trimmed result, and the
\* empty string exactly when both modes were tried and neither produced
\* text.
C6_LadderOrder ==
    LET c == FullCalls
    IN  /\ Len(c) <= 2
        /\ (Len(c) >= 1 => c[1].psm = "3")
        /\ (Len(c) = 2 => c[2].psm = "6" /\ NoText(c[1]))
        /\ LadderDone =>
               /\ Len(c) >= 1
               /\ (NoText(c[1]) => Len(c) = 2)
               /\ fullText = IF ~NoText(c[1]) THEN TrimSpace(c[1].output)
                              ELSE IF ~NoText(c[2]) THEN TrimSpace(c[2].output)
                              ELSE <<>>
               /\ (fullText = <<>> <=>
                       (Len(c) = 2 /\ NoText(c[1]) /\ NoText(c[2])))

\* Witness of C6: the first mode gave nothing, the second was run and its
\* text was returned.
C6_Witness ==
    /\ LadderDone
    /\ Len(FullCalls) = 2
    /\ fullText # <<>>

\* ExtractTexts has returned without an error.
ExtractReturned ==
    pc \in {"extracted", "done"} /\ img # NoImage /\ extractErr = ""

\* The text of a successful region invocation passes the normalizer, the
\* validity test and the noise filter.
Recognized(call) ==
    /\ ~call.err
    /\ call.target >= 1
    /\ cleanTesseractOutput(TrimSpace(call.output)) # <<>>
    /\ isValidText(cleanTesseractOutput(TrimSpace(call.output)))
    /\ FilterAccepts(TextElement(cleanTesseractOutput(TrimSpace(call.output)), 0, 0))

\* The text of the invocation is in the list up to case.
InResults(call) ==
    \E i \in 1..Len(results) :
        SameIgnoringCase(results[i].Text,
                         cleanTesseractOutput(TrimSpace(call.output)))

\* C7: an engine invocation that times out or exits non-zero yields the
\* empty string for that attempt only (an invocation that exits normally
\* yields its trimmed output whatever failed before it): the remaining
\* ladder entry and all remaining regions are still processed, and the only
\* errors of ExtractTexts are 'OCR not enabled' and the decode failure, both
\* raised before any invocation.
C7_EngineFailureAbsorbed ==
    /\ extractErr \in {"", "OCR not enabled", "failed to load image"}
    /\ (extractErr # "" => calls = <<>>)
    /\ \A i \in 1..Len(calls) :
           calls[i].text = IF calls[i].err THEN <<>>
                           ELSE TrimSpace(calls[i].output)
    /\ (LadderDone /\ FullCalls[1].err) => Len(FullCalls) = 2
    /\ (pc \in {"extracted", "done"} /\ img # NoImage) =>
           /\ extractErr = ""
           /\ regionIdx = Len(textRegions) + 1

\* Witness of C7: ExtractTexts has returned the text of a region recognized
\* after the whole-image attempts and an earlier region attempt had failed.
C7_Witness ==
    /\ ExtractReturned
    /\ FullCalls[1].err
    /\ FullCalls[2].err
    /\ \E i, j \in 1..Len(calls) :
          /\ i < j
          /\ calls[i].target >= 1
          /\ calls[i].err
          /\ Recognized(calls[j])
          /\ InResults(calls[j])

\* The key of the Deduplicator: the lower-cased, trimmed text.
KeyOf(elem) == [i \in 1..Len(TrimSpace(elem.Text)) |->
                   ToLowerRune(TrimSpace(elem.Text)[i])]

\* The indices of L that are the first with their key.
FirstOfKey(L) ==
    { i \in 1..Len(L) : \A j \in 1..(i - 1) : KeyOf(L[j]) # KeyOf(L[i]) }

C9_NoiseFilterIdempotent ==
    fnOp = "filterValidTexts" =>
        /\ fnOut.twice = fnOut.once
        /\ \E S \in SUBSET (1..Len(fnList)) : fnOut.once = Restrict(fnList, S)

\* Witness of C9: the filter kept an element with surrounding whitespace
\* and dropped another.
C9_Witness ==
    /\ fnOp = "filterValidTexts"
    /\ Len(fnOut.once) < Len(fnList)
    /\ \E i \in 1..Len(fnOut.once) :
          TrimSpace(fnOut.once[i].Text) # fnOut.once[i].Text

\* Every character of the text equals its first character.
AllSameCharacter(text) == \A i \in 1..Len(text) : text[i] = text[1]

\* The text is its prefix of k characters repeated len/k times, for some k
\* from 1 to len/3.
PrefixRepeated(text) ==
    \E k \in 1..(Len(text) \div 3) :
        Repeat(SubSeq(text, 1, k), Len(text) \div k) = text

\* C10: a text of three or more characters is rejected as a repeating
\* pattern exactly when every character equals the first or the text is a
\* prefix of length k (1 <= k <= len/3) repeated len/k times; texts with
\* non-ASCII characters included.
C10_RepeatingPatternShapes ==
    (fnOp = "isRepeatingPattern" /\ Len(fnText) >= 3) =>
        (fnOut <=> (AllSameCharacter(fnText) \/ PrefixRepeated(fnText)))

\* The allow-list as the specification words it: a text of digits only, or
\* one of the listed particles, words and symbols.
OnAllowList(text) ==
    \/ (Len(text) >= 1 /\ \A i \in 1..Len(text) : text[i] \in 48..57)
    \/ text \in significantShorts

\* The i-th element of the input is in the result of filterValidTexts.
KeptByFilter(i) == \E j \in 1..Len(fnOut.once) : fnOut.once[j] = fnList[i]

\* C11: filterValidTexts rejects every text whose trimmed form has one or
\* two characters and is not on the allow-list, a single Korean character
\* that is not on the list included, and keeps every text of one or two
\* digits.
C11_ShortTextsNeedAllowList ==
    fnOp = "filterValidTexts" =>
        \A i \in 1..Len(fnList) :
            LET text == TrimSpace(fnList[i].Text)
            IN  Len(text) \in 1..2 =>
                    /\ ~OnAllowList(text) => ~KeptByFilter(i)
                    /\ (\A k \in 1..Len(text) : text[k] \in 48..57)
                           => KeptByFilter(i)

\* "Warning:", "Error:" and "Estimating resolution as ".
WarningPrefix == <<87, 97, 114, 110, 105, 110, 103, 58>>

ErrorPrefix == <<69, 114, 114, 111, 114, 58>>

EstimatePrefix ==
    <<69, 115, 116, 105, 109, 97, 116, 105, 110, 103, 32, 114, 101, 115,
    111, 108, 117, 116, 105, 111, 110, 32, 97, 115, 32>>

\* The text holds "Estimating resolution as " followed by a digit.
HasResolutionEstimate(text) ==
    \E i \in 1..Len(text) :
        /\ i + Len(EstimatePrefix) <= Len(text)
        /\ SubSeq(text, i, i + Len(EstimatePrefix) - 1) = EstimatePrefix
        /\ text[i + Len(EstimatePrefix)] \in 48..57

StartsWith(text, prefix) ==
    Len(text) >= Len(prefix) /\ SubSeq(text, 1, Len(prefix)) = prefix

\* The line is a diagnostic and nothing else: it starts with "Warning:" or
\* "Error:", or it is "Estimating resolution as " followed by digits only.
IsDiagnosticLine(line) ==
    \/ StartsWith(line, WarningPrefix)
    \/ StartsWith(line, ErrorPrefix)
    \/ /\ Len(line) > Len(EstimatePrefix)
       /\ StartsWith(line, EstimatePrefix)
       /\ \A i \in (Len(EstimatePrefix) + 1)..Len(line) : line[i] \in 48..57

\* The raw text without its diagnostic lines.
WithoutDiagnosticLines(raw) ==
    LET lines == SplitOn(raw, 10)
    IN  JoinWith(Restrict(lines, { i \in 1..Len(lines) :
                                     ~IsDiagnosticLine(lines[i]) }), <<10>>)

RECURSIVE ShortRun(_)
\* The number of lines of at most 10 characters the list starts with.
ShortRun(lines) ==
    IF lines # <<>> /\ Len(Head(lines)) <= 10
    THEN 1 + ShortRun(Tail(lines))
    ELSE 0

RECURSIVE UnitsOf(_)
\* The units of a list of lines: every maximal run of lines of at most 10
\* characters joined by single spaces, every longer line by itself.
UnitsOf(lines) ==
    IF lines = <<>> THEN <<>>
    ELSE IF ShortRun(lines) = 0
         THEN <<Head(lines)>> \o UnitsOf(Tail(lines))
         ELSE <<JoinWith(SubSeq(lines, 1, ShortRun(lines)), <<32>>)>>
              \o UnitsOf(SubSeq(lines, ShortRun(lines) + 1, Len(lines)))

\* The non-empty trimmed lines of a raw text.
TrimmedLines(raw) ==
    LET lines == SplitOn(raw, 10)
        trimmed == [i \in 1..Len(lines) |-> TrimSpace(lines[i])]
    IN  Restrict(trimmed, { i \in 1..Len(lines) : trimmed[i] # <<>> })

\* C13: for a raw text without diagnostics, cleanTesseractOutput returns the
\* empty string when no trimmed line is non-empty, the line when there is
\* one, and otherwise the units in input order joined by " | ", a unit being
\* a maximal run of lines of at most 10 characters joined by single spaces
\* or one longer line.
C13_UnitsOfLines ==
    (/\ fnOp = "cleanTesseractOutput"
     /\ ~Contains(fnText, WarningPrefix)
     /\ ~Contains(fnText, ErrorPrefix)
     /\ ~HasResolutionEstimate(fnText)) =>
        fnOut = IF Len(TrimmedLines(fnText)) = 0 THEN <<>>
                ELSE IF Len(TrimmedLines(fnText)) = 1
                     THEN TrimmedLines(fnText)[1]
                     ELSE JoinWith(UnitsOf(TrimmedLines(fnText)),
                                   <<32, 124, 32>>)

\* The answer is one candidate: it has no comma, and once trimmed of spaces
\* and quotes it is neither empty nor "NONE".
OneCandidate(answer) ==
    /\ Len(SplitOn(answer, 44)) = 1
    /\ Trim(TrimSpace(answer), {34, 39}) # <<>>
    /\ answer # <<78, 79, 78, 69>>

\* The original has a word whose similarity to the candidate is above 0.8.
HasSimilarWord(candidate, original) ==
    LET words == FieldsFunc(ToLower(original.Text), {32, 124, 45, 44, 46})
    IN  \E w \in 1..Len(words) :
            ScoreGt(calculateTextSimilarity(words[w], ToLower(candidate)),
                    <<8, 10>>)

\* C14: when the answer is one candidate that equals no original text but
\* has a similarity above 0.8 to a word of an original element, the
\* reconciler returns exactly one element, with the text of the candidate
\* and the coordinates of that original.
C14_CorrectedSpellingKeepsCoordinates ==
    LET candidate == Trim(TrimSpace(fnText), {34, 39})
    IN  (/\ fnOp = "filterTextItemsAdvanced"
         /\ OneCandidate(fnText)
         /\ \A i \in 1..Len(fnList) :
                ToLower(fnList[i].Text) # ToLower(candidate)
         /\ \E i \in 1..Len(fnList) : HasSimilarWord(candidate, fnList[i])) =>
            \E i \in 1..Len(fnList) :
                /\ HasSimilarWord(candidate, fnList[i])
                /\ fnOut = <<TextElement(candidate, fnList[i].X, fnList[i].Y)>>

\* C15: when the answer is exactly "NONE", or is empty or holds whitespace
\* only, the reconciler returns the empty list.
C15_NoneOrBlankGivesEmpty ==
    (/\ fnOp = "filterTextItemsAdvanced"
     /\ \/ fnText = <<78, 79, 78, 69>>
        \/ \A i \in 1..Len(fnText) : fnText[i] \in {9, 10, 13, 32}) =>
        fnOut = <<>>

\* Witness of C15: the answer "NONE" gave the empty list although the
\* originals hold "One", a text the entry "NONE" would match.
C15_Witness ==
    /\ fnOp = "filterTextItemsAdvanced"
    /\ fnText = <<78, 79, 78, 69>>
    /\ \E i \in 1..Len(fnList) : fnList[i].Text = <<79, 110, 101>>
    /\ fnOut = <<>>

\* C16: a temporary file of a request does not exist once the operation that
\* made it has returned, whatever the exit path: the file of a region exists
\* only while recognizeTextInRegion runs the engine on it, the saved upload
\* only between its saving and the return of the handler, and no file is
\* left when the request is done.
C16_TempFilesRemoved ==
    /\ "region" \in tempFiles => pc = "engine"
    /\ "upload" \in tempFiles =>
           pc \in {"extract", "full", "detect", "regions", "engine", "extracted"}
    /\ pc = "done" => tempFiles = {}

\* Witness of C16: the request is done and no file is left, after the
\* upload was saved, one engine run on the file of a region succeeded,
\* another failed and the call of the language model failed.
C16_Witness ==
    /\ pc = "done"
    /\ tempFiles = {}
    /\ \E i, j \in 1..Len(calls) :
          /\ calls[i].target > 0 /\ calls[i].err
          /\ calls[j].target > 0 /\ ~calls[j].err
    /\ serviceReply # <<>>
    /\ ~response.success

\* The engine runs made so far are at most two on the whole image and at
\* most one on each detected region.
InvocationsBounded ==
    /\ Cardinality({ i \in 1..Len(calls) : calls[i].target = 0 }) <= 2
    /\ \A i \in 1..Len(calls) : calls[i].target <= Len(textRegions)
    /\ \A i, j \in 1..Len(calls) :
           (calls[i].target = calls[j].target /\ calls[i].target > 0) => i = j

\* C17: every image request eventually returns, and the number of engine
\* runs it makes is bounded: at most the two whole-image attempts of the
\* ladder and one run per detected region.
C17_RequestReturns == <>(pc = "done") /\ []InvocationsBounded

\* Witness of C17: the request has returned after two whole-image attempts
\* and a run on each of two regions, one of them ended by an engine error.
C17_Witness ==
    /\ pc = "done"
    /\ Len(textRegions) = 2
    /\ Len(calls) = 4
    /\ \E i \in 1..Len(calls) : calls[i].err

\* The positions of ExtractTexts at which a request holds the read lock.
HoldingLock == {"locked", "full", "detect", "regions", "engine", "finish"}

\* C18: concurrent requests never block on the lock of the analyzer: no
\* request holds it for writing, a request that calls ExtractTexts gets the
\* read lock whatever the other requests do, and the readers are exactly
\* the requests inside ExtractTexts, so the lock is released on every exit
\* path.
C18_ReadLockNeverBlocks ==
    /\ ~mu.writer
    /\ \A r \in DOMAIN reqPc : reqPc[r] = "idle" => RLockReady(mu)
    /\ mu.readers = Cardinality({ r \in DOMAIN reqPc : reqPc[r] \in HoldingLock })

\* Witness of C18: two requests hold the read lock at once, after a third
\* left ExtractTexts by the decode failure.
C18_Witness ==
    /\ mu.readers = 2
    /\ \E r \in DOMAIN reqPc : reqPc[r] = "decodeFailed"

\* The image was decoded and no engine run gave text.
NothingRecognized ==
    img # NoImage /\ \A i \in 1..Len(calls) : NoText(calls[i])

\* C19: when the image decodes and no attempt yields text, ExtractTexts
\* returns the empty list without an error and the response is a success
\* with total_count 0; in every successful response total_count is the
\* number of elements of text_list.
C19_EmptyRecognitionIsSuccess ==
    /\ (pc \in {"extracted", "done"} /\ NothingRecognized) =>
           (extractErr = "" /\ results = <<>>)
    /\ (pc = "done" /\ NothingRecognized) =>
           /\ response.success
           /\ response.status = 200
           /\ response.text_list = <<>>
           /\ response.total_count = 0
    /\ (pc = "done" /\ response.success) =>
           response.total_count = Len(response.text_list)

\* Witness of C19: a request for a category has returned a success without
\* elements after two whole-image attempts and a run on a region, none of
\* which gave text.
C19_Witness ==
    /\ pc = "done"
    /\ NothingRecognized
    /\ filterType # ""
    /\ Len(calls) >= 3
    /\ response.success
    /\ response.total_count = 0

\* The call of the language model failed: no key, no reply, a reply that
\* does not decode, or a reply without choices.
ServiceFailed(reply) ==
    ~reply.key \/ ~reply.sent \/ ~reply.decoded \/ reply.choices = <<>>

\* C20: when a category is asked for and the call of the language model
\* fails, the request fails as a whole: the response is the failure
\* envelope with status 500 and without text elements.
C20_ServiceFailureFailsRequest ==
    (/\ pc = "done"
     /\ serviceReply # <<>>
     /\ ServiceFailed(serviceReply[1])) =>
        /\ ~response.success
        /\ response.status = 500
        /\ response.text_list = <<>>
        /\ response.total_count = 0

\* Witness of C20: ExtractTexts returned two elements, the language model
\* replied without choices, and the request has failed.
C20_Witness ==
    /\ pc = "done"
    /\ Len(results) >= 2
    /\ serviceReply # <<>>
    /\ serviceReply[1].decoded
    /\ serviceReply[1].choices = <<>>
    /\ response.status = 500


\* The value of the -l option in a command line of the engine.
LanguageArgument(command) ==
    command[(CHOOSE i \in 1..(Len(command) - 1) : command[i] = "-l") + 1]

\* C21: when the Korean data is not installed and the English data is, the
\* engine is invoked with the English language alone.
C21_PrimaryLanguageAlone ==
    (fnOp = "runTesseract" /\ "kor" \notin tessdata /\ "eng" \in tessdata)
        => LanguageArgument(fnOut.command) = "eng"


\* The entries of a category answer: its parts between commas, each trimmed
\* of whitespace and then of quotes.
AnswerEntries(answer) ==
    LET parts == SplitOn(answer, 44)
    IN  [i \in 1..Len(parts) |-> Trim(TrimSpace(parts[i]), {34, 39})]

\* C22: no element of the reconciler's output has the text "NONE" or the
\* empty text: such entries of the answer are skipped.
C22_SentinelEntriesSkipped ==
    fnOp = "filterTextItemsAdvanced" =>
        \A i \in 1..Len(fnOut) :
            /\ fnOut[i].Text # <<78, 79, 78, 69>>
            /\ fnOut[i].Text # <<>>


\* The text a region invocation gives the loop of ExtractTexts is a
\* candidate: it is not empty after cleaning and it is valid.
IsCandidate(call) ==
    /\ call.target >= 1
    /\ cleanTesseractOutput(call.text) # <<>>
    /\ isValidText(cleanTesseractOutput(call.text))

\* The recognized candidates of the request, in order: the whole-image
\* element, then one element per region invocation that gave a candidate.
RecognizedCandidates ==
    LET regionCalls == SelectSeq(calls, IsCandidate)
    IN  FullImageResults(img, fullText) \o
        [i \in 1..Len(regionCalls) |->
            TextElement(cleanTesseractOutput(regionCalls[i].text),
                        RegionCentre(textRegions[regionCalls[i].target]).X,
                        RegionCentre(textRegions[regionCalls[i].target]).Y)]

\* C23: the list ExtractTexts returns is the noise filter applied to the
\* recognized candidates, followed by keeping the first element of every
\* case-insensitive key among the survivors.
C23_FilterBeforeDedup ==
    ExtractReturned =>
        LET survivors == filterValidTexts(RecognizedCandidates)
        IN  results = Restrict(survivors, FirstOfKey(survivors))


\* The position of the first entry of the answer with the given text, 0
\* when there is none.
FirstEntry(entries, text) ==
    IF \E k \in 1..Len(entries) : entries[k] = text
    THEN CHOOSE k \in 1..Len(entries) :
             /\ entries[k] = text
             /\ \A h \in 1..(k - 1) : entries[h] # text
    ELSE 0

\* C24: the output of the reconciler has at most one element per distinct
\* entry text, at most as many elements as the answer has non-empty entries,
\* and its elements are in the order of the entries in the answer.
C24_EachCandidateConsumedOnce ==
    fnOp = "filterTextItemsAdvanced" =>
        LET entries == AnswerEntries(fnText)
        IN  /\ \A i, j \in 1..Len(fnOut) :
                   i # j => fnOut[i].Text # fnOut[j].Text
            /\ Len(fnOut) <= Cardinality({ k \in 1..Len(entries) :
                                             entries[k] # <<>> })
            /\ \A i \in 1..Len(fnOut) : FirstEntry(entries, fnOut[i].Text) # 0
            /\ \A i, j \in 1..Len(fnOut) :
                   i < j => FirstEntry(entries, fnOut[i].Text)
                                < FirstEntry(entries, fnOut[j].Text)

\* Witness of C24: the answer names "cafe" twice, then an empty entry, then
\* "bank"; the output holds one "cafe" and then "bank".
C24_Witness ==
    /\ fnOp = "filterTextItemsAdvanced"
    /\ fnText = <<99, 97, 102, 101, 44, 32, 99, 97, 102, 101, 44, 44,
                  98, 97, 110, 107>>
    /\ Len(fnOut) = 2
    /\ fnOut[1].Text = <<99, 97, 102, 101>>
    /\ fnOut[2].Text = <<98, 97, 110, 107>>


\* The answer is neither the sentinel nor blank: its entries are candidates.
HasCandidates(answer) ==
    answer # <<78, 79, 78, 69>> /\ TrimSpace(answer) # <<>>

\* The score of a candidate against an original in real numbers is above
\* 0.3: 1, 0.9 or 0.85 by the three rules, else the similarity multiplied
\* by the ratio of the lengths.
ExactScoreAboveThreshold(candidate, original) ==
    LET score == calculateMatchScore(ToLower(candidate), ToLower(original))
    IN  score[1] * 10 > 3 * score[2]

\* C25: an entry of the answer yields an output element if and only if its
\* score against some original is strictly greater than 0.3.
C25_ThresholdDecidesOutput ==
    (fnOp = "filterTextItemsAdvanced" /\ HasCandidates(fnText)) =>
        LET entries == AnswerEntries(fnText)
        IN  \A k \in 1..Len(entries) :
                entries[k] # <<>> =>
                    ((\E i \in 1..Len(fnOut) : fnOut[i].Text = entries[k])
                        <=> \E o \in 1..Len(fnList) :
                                ExactScoreAboveThreshold(entries[k],
                                                         fnList[o].Text))


RECURSIVE EditDistance(_, _)
\* The least number of insertions, deletions and substitutions of single
\* characters that turn a into b.
EditDistance(a, b) ==
    IF a = <<>> THEN Len(b)
    ELSE IF b = <<>> THEN Len(a)
    ELSE IF Head(a) = Head(b) THEN EditDistance(Tail(a), Tail(b))
    ELSE 1 + min(EditDistance(Tail(a), b),
                 min(EditDistance(a, Tail(b)),
                     EditDistance(Tail(a), Tail(b))))

\* C26: levenshteinDistance(a, b) is the edit distance of a and b counted in
\* Unicode characters, it is symmetric, and it is 0 exactly when a = b.
C26_DistanceInCharacters ==
    fnOp = "levenshteinDistance" =>
        /\ fnOut.forward = EditDistance(fnList[1], fnList[2])
        /\ fnOut.forward = fnOut.backward
        /\ (fnOut.forward = 0 <=> fnList[1] = fnList[2])


\* The engine process ended normally and its output holds nothing but
\* diagnostic lines and whitespace: it normalizes to the empty string.
OnlyDiagnostics(call) ==
    ~call.err /\ cleanTesseractOutput(TrimSpace(call.output)) = <<>>

\* C27: when the whole-image attempt in the first layout mode gives output
\* that normalizes to the empty string, the second layout mode is tried
\* before recognizeFullImage returns.
C27_DiagnosticsDoNotEndLadder ==
    (LadderDone /\ Len(FullCalls) >= 1 /\ OnlyDiagnostics(FullCalls[1])) =>
        Len(FullCalls) = 2


\* Request r has a region attempt in progress: its temporary file is
\* written and its engine has not run yet.
AttemptInProgress(r) == reqPc[r] = "engine" /\ reqFile[r] # <<>>

\* C28: no two region attempts that are in progress at the same time use the
\* same temporary file, and the file of an attempt in progress is there
\* until the attempt itself removes it.
C28_TempFilesIsolated ==
    \A r1, r2 \in Requests :
        AttemptInProgress(r1) =>
            /\ reqFile[r1][1] \in tempFiles
            /\ (r2 # r1 /\ AttemptInProgress(r2)) => reqFile[r2] # reqFile[r1]


\* C29: while requests run, the engine path, the enabled flag and
\* TESSDATA_PREFIX keep the values the initialization gave them, and what a
\* request's recognition attempt works on does not depend on the other
\* requests: the file it wrote is the one its engine reads.
C29_RequestsShareNothingWritten ==
    /\ tesseractPath = "/usr/bin/tesseract"
    /\ enabled = TRUE
    /\ environ = "/usr/share/tesseract-ocr/4.00/tessdata"
    /\ \A r \in Requests :
           reqPc[r] = "engine" =>
               /\ reqFile[r] # <<>>
               /\ reqFile[r][1] \in tempFiles
               /\ \A other \in Requests \ {r} : reqFile[other] # reqFile[r]


\* The bounding box of a contour with 5 px of padding, clamped to the image.
Padded(image, rect) ==
    Rect(max(0, rect.Min.X - 5), max(0, rect.Min.Y - 5),
         min(image.W, rect.Max.X + 5), min(image.H, rect.Max.Y + 5))

\* The padded boxes of the contours that satisfy keep, in contour order.
RegionsKept(image, contours, keep(_)) ==
    LET kept == SelectSeq(contours, keep)
    IN  [i \in 1..Len(kept) |-> Padded(image, kept[i].rect)]

\* Area in [100, 50000], width at least 15, height in [8, 100].
InBandsEndsIncluded(contour) ==
    /\ contour.area >= 100 /\ contour.area <= 50000
    /\ Dx(contour.rect) >= 15
    /\ Dy(contour.rect) >= 8 /\ Dy(contour.rect) <= 100

\* Area strictly between 100 and 50000, width above 15, height strictly
\* between 8 and 100.
InBandsEndsExcluded(contour) ==
    /\ contour.area > 100 /\ contour.area < 50000
    /\ Dx(contour.rect) > 15
    /\ Dy(contour.rect) > 8 /\ Dy(contour.rect) < 100

\* C30 as stated: detectTextRegions returns the regions of exactly the
\* contours whose area is in [100, 50000], whose width is at least 15 and
\* whose height is in [8, 100], the ends included; the empty list when
\* there is none.
C30_BandsEndsIncluded ==
    fnOp = "detectTextRegions" =>
        fnOut = RegionsKept(fnList[1], fnList[2], InBandsEndsIncluded)

\* C30 as amended: detectTextRegions returns the regions of exactly the
\* contours whose area is strictly between 100 and 50000, whose width is
\* above 15 and whose height is strictly between 8 and 100; the empty list
\* when there is none.
C30_BandsEndsExcluded ==
    fnOp = "detectTextRegions" =>
        fnOut = RegionsKept(fnList[1], fnList[2], InBandsEndsExcluded)

\* Witness of C30: of two contours, the one at the lower end of the area
\* band was rejected and the one just inside every band was accepted.
C30_Witness ==
    /\ fnOp = "detectTextRegions"
    /\ Len(fnList[2]) = 2
    /\ fnList[2][1].area = 100
    /\ fnList[2][2].area = 101
    /\ Len(fnOut) = 1
    /\ fnOut[1] = Padded(fnList[1], fnList[2][2].rect)

====
